---- MODULE Spec2Model ----
(***************************************************************************)
(* A model of the Monstr dashboard client (React + TypeScript) and of the  *)
(* ingestion / query back end it talks to.                                 *)
(*                                                                         *)
(* The client parts are translated from the sources under src/.  The back  *)
(* end (tailer, ingestion pipeline, event store, retention manager and     *)
(* aggregation engine) is not part of src/ and is modelled from spec.md.   *)
(***************************************************************************)
EXTENDS Integers, Sequences, FiniteSets, TLC

(***************************************************************************)
(* Bounds of the model.                                                    *)
(***************************************************************************)
\* number of configured node names
MaxNodes == 3

\* largest count or size a response field holds
MaxCount == 2

\* lines written to the logs of all sources together
MaxLines == 2

\* steps of the clock
MaxTicks == 2

\* crashes of the back end
MaxRestarts == 1

\* failed writes of one line
MaxRetries == 1

\* entries of a data-distribution response
MaxItems == 3

\* entries of one period of a paystubs response
MaxRecords == 2

\* coalesce calls on one deduper
MaxCalls == 3

\* milliseconds the clock of the browser runs
MaxTime == 1200

\* requests one component starts
MaxLoads == 2

(***************************************************************************)
(* Generic helpers on sequences.                                           *)
(***************************************************************************)
Range(s) == {s[i] : i \in 1..Len(s)}

Includes(s, x) == x \in Range(s)

RECURSIVE FilterOut(_, _)
FilterOut(s, x) ==
  IF s = <<>> THEN <<>>
  ELSE IF Head(s) = x THEN FilterOut(Tail(s), x)
       ELSE <<Head(s)>> \o FilterOut(Tail(s), x)

\* Array.prototype.sort on names: insertion into an ordered list.  Names are
\* the strings "1", "2", ...; their order is that of the numbers they show.
NodeNames == {ToString(i) : i \in 1..MaxNodes}

NameIndex(n) == CHOOSE i \in 1..MaxNodes : ToString(i) = n

RECURSIVE SortNames(_)
SortNames(s) ==
  IF s = <<>> THEN <<>>
  ELSE LET m == CHOOSE x \in Range(s) :
                  \A y \in Range(s) : NameIndex(x) <= NameIndex(y)
       IN  <<m>> \o SortNames(FilterOut(s, m))

\* the node list served by GET /nodes: the first k configured names
NodeList(k) == [i \in 1..k |-> ToString(i)]

(***************************************************************************)
(* JavaScript values, as far as the client computes with them.  A value is *)
(* a record: kind names its type, num/den give a finite number as the      *)
(* fraction num/den (den > 0, lowest terms), sign is the sign of an        *)
(* infinity, and val holds a string's text, an object's fields (a function *)
(* from its keys) or an array's elements (a sequence).                     *)
(***************************************************************************)
JsVal(kind, num, den, val) == [kind |-> kind, num |-> num, den |-> den, val |-> val]

Undefined == JsVal("undefined", 0, 1, "")
Null == JsVal("null", 0, 1, "")
NaN == JsVal("NaN", 0, 1, "")
PosInfinity == JsVal("Infinity", 1, 1, "")
NegInfinity == JsVal("Infinity", -1, 1, "")
Str(text) == JsVal("string", 0, 1, text)
Obj(fields) == JsVal("object", 0, 1, fields)
Arr(items) == JsVal("array", 0, 1, items)

Abs(x) == IF x < 0 THEN -x ELSE x

RECURSIVE GCD(_, _)
GCD(a, b) == IF b = 0 THEN a ELSE GCD(b, a % b)

\* the finite number n/d, d # 0
Rat(n, d) ==
  LET g == GCD(Abs(n), Abs(d))
      s == IF d < 0 THEN -1 ELSE 1
  IN  JsVal("number", s * (n \div g), s * (d \div g), "")

Num(n) == Rat(n, 1)

\* the fraction (n1/d1) * (n2/d2), d1 > 0 and d2 > 0, reduced before multiplying
RatMul(n1, d1, n2, d2) ==
  LET g1 == GCD(Abs(n1), d2)
      g2 == GCD(Abs(n2), d1)
  IN  Rat((n1 \div g1) * (n2 \div g2), (d1 \div g2) * (d2 \div g1))

\* Number.isFinite
isFinite(x) == x.kind = "number"

Sign(x) ==
  IF x.kind = "Infinity" THEN x.num
  ELSE IF x.num > 0 THEN 1 ELSE IF x.num < 0 THEN -1 ELSE 0

\* a + b on numbers
JsAdd(a, b) ==
  IF a.kind = "NaN" \/ b.kind = "NaN" THEN NaN
  ELSE IF a.kind = "Infinity" /\ b.kind = "Infinity"
       THEN (IF a.num = b.num THEN a ELSE NaN)
  ELSE IF a.kind = "Infinity" THEN a
  ELSE IF b.kind = "Infinity" THEN b
  ELSE Rat(a.num * b.den + b.num * a.den, a.den * b.den)

\* a * b on numbers
JsMul(a, b) ==
  IF a.kind = "NaN" \/ b.kind = "NaN" THEN NaN
  ELSE IF a.kind = "Infinity" \/ b.kind = "Infinity"
       THEN (IF Sign(a) * Sign(b) = 0 THEN NaN
             ELSE IF Sign(a) * Sign(b) > 0 THEN PosInfinity ELSE NegInfinity)
  ELSE RatMul(a.num, a.den, b.num, b.den)

\* a / b on numbers (the sign of a zero is not kept)
JsDiv(a, b) ==
  IF a.kind = "NaN" \/ b.kind = "NaN" THEN NaN
  ELSE IF a.kind = "Infinity"
       THEN (IF b.kind = "Infinity" THEN NaN
             ELSE IF Sign(a) * Sign(b) < 0 THEN NegInfinity ELSE PosInfinity)
  ELSE IF b.kind = "Infinity" THEN Num(0)
  ELSE IF b.num = 0
       THEN (IF a.num = 0 THEN NaN
             ELSE IF a.num > 0 THEN PosInfinity ELSE NegInfinity)
  ELSE IF b.num > 0 THEN RatMul(a.num, a.den, b.den, b.num)
  ELSE RatMul(a.num, a.den, -b.den, -b.num)

\* a > b, a >= b, a < b on numbers: false when either is NaN
JsGt(a, b) ==
  /\ a.kind # "NaN" /\ b.kind # "NaN"
  /\ IF a.kind = "Infinity" THEN a.num > 0 /\ b # a
     ELSE IF b.kind = "Infinity" THEN b.num < 0
     ELSE LET fa == a.num \div a.den
              fb == b.num \div b.den
          IN  IF fa # fb THEN fa > fb
              ELSE (a.num % a.den) * b.den > (b.num % b.den) * a.den

JsGe(a, b) == a.kind # "NaN" /\ b.kind # "NaN" /\ (a = b \/ JsGt(a, b))

JsLt(a, b) == JsGt(b, a)

\* Math.max(a, b)
JsMax(a, b) ==
  IF a.kind = "NaN" \/ b.kind = "NaN" THEN NaN
  ELSE IF JsGt(b, a) THEN b ELSE a

\* Math.floor on a number
JsFloor(a) == IF a.kind = "number" THEN Num(a.num \div a.den) ELSE a

\* the numeric value of a string
StringToNumber(text) ==
  CASE text = "" -> Num(0)
    [] text = "3" -> Num(3)
    [] text = "1e999" -> PosInfinity
    [] OTHER -> NaN

\* Number(value)
RECURSIVE Number(_)
Number(value) ==
  CASE value.kind = "undefined" -> NaN
    [] value.kind = "null" -> Num(0)
    [] value.kind = "string" -> StringToNumber(value.val)
    [] value.kind = "object" -> NaN
    [] value.kind = "array" ->
         (IF Len(value.val) = 0 THEN Num(0)
          ELSE IF Len(value.val) > 1 THEN NaN
          ELSE IF value.val[1].kind \in {"undefined", "null"} THEN Num(0)
          ELSE Number(value.val[1]))
    [] OTHER -> value

\* String(value) of a text, undefined or null
String(value) ==
  CASE value.kind = "string" -> value.val
    [] value.kind = "undefined" -> "undefined"
    [] value.kind = "null" -> "null"

\* a ?? b
Nullish(a, b) == IF a.kind \in {"undefined", "null"} THEN b ELSE a

\* !value
Falsy(value) ==
  \/ value.kind \in {"undefined", "null", "NaN"}
  \/ value.kind = "number" /\ value.num = 0
  \/ value.kind = "string" /\ value.val = ""

\* !value || typeof value !== "object"
NotAnObject(value) == Falsy(value) \/ value.kind \notin {"object", "array"}

\* record[key]: undefined when the key is absent
Get(value, key) ==
  IF value.kind = "object" /\ key \in DOMAIN value.val THEN value.val[key]
  ELSE Undefined

(***************************************************************************)
(* apiClient: what each fetch function makes of a response body.           *)
(***************************************************************************)
\* a toNumeric that lets the parsed value through unchecked
toNumeric_Unchecked(value) == Number(value)

toNumeric(value) ==
  LET parsed == Number(value)
  IN  IF isFinite(parsed) THEN parsed ELSE Num(0)

\* record.camel ?? record.snake
Field(record, camel, snake) == Nullish(Get(record, camel), Get(record, snake))

ZERO_METRICS ==
  [operationsTotal |-> Num(0), operationsSuccess |-> Num(0),
   dataBytes |-> Num(0), rate |-> Num(0)]

extractMetrics(value) ==
  IF NotAnObject(value) THEN ZERO_METRICS
  ELSE [operationsTotal |->
          toNumeric(Field(value, "operationsTotal", "operations_total")),
        operationsSuccess |->
          toNumeric(Field(value, "operationsSuccess", "operations_success")),
        rate |-> toNumeric(Get(value, "rate")),
        dataBytes |->
          JsMax(Num(0), toNumeric(Field(value, "dataBytes", "data_bytes")))]

extractCategoryMetrics(category) ==
  IF NotAnObject(category)
  THEN [normal |-> extractMetrics(Null), repair |-> extractMetrics(Null)]
  ELSE [normal |-> extractMetrics(Get(category, "normal")),
        repair |-> extractMetrics(Get(category, "repair"))]

\* the satellites of the response that are objects, each item extracted
RECURSIVE extractSatellites(_)
extractSatellites(items) ==
  IF items = <<>> THEN <<>>
  ELSE IF NotAnObject(Head(items)) THEN extractSatellites(Tail(items))
  ELSE <<[download |-> extractCategoryMetrics(Get(Head(items), "download")),
          upload |-> extractCategoryMetrics(Get(Head(items), "upload"))]>>
       \o extractSatellites(Tail(items))

NoData == [status |-> "none"]

Failed == [status |-> "error"]

fetchActualPerformance(data) ==
  IF NotAnObject(data) THEN Failed
  ELSE [status |-> "ok",
        download |-> extractCategoryMetrics(Get(data, "download")),
        upload |-> extractCategoryMetrics(Get(data, "upload")),
        satellites |->
          IF Get(data, "satellites").kind = "array"
          THEN extractSatellites(Get(data, "satellites").val)
          ELSE <<>>]

SizeCountFields ==
  {<<"sizeDlSuccNor", "size_dl_succ_nor">>, <<"sizeUlSuccNor", "size_ul_succ_nor">>,
   <<"sizeDlFailNor", "size_dl_fail_nor">>, <<"sizeUlFailNor", "size_ul_fail_nor">>,
   <<"sizeDlSuccRep", "size_dl_succ_rep">>, <<"sizeUlSuccRep", "size_ul_succ_rep">>,
   <<"sizeDlFailRep", "size_dl_fail_rep">>, <<"sizeUlFailRep", "size_ul_fail_rep">>,
   <<"countDlSuccNor", "count_dl_succ_nor">>, <<"countUlSuccNor", "count_ul_succ_nor">>,
   <<"countDlFailNor", "count_dl_fail_nor">>, <<"countUlFailNor", "count_ul_fail_nor">>,
   <<"countDlSuccRep", "count_dl_succ_rep">>, <<"countUlSuccRep", "count_ul_succ_rep">>,
   <<"countDlFailRep", "count_dl_fail_rep">>, <<"countUlFailRep", "count_ul_fail_rep">>}

FieldNames == {f[1] : f \in SizeCountFields}

SnakeOf(camel) == (CHOOSE f \in SizeCountFields : f[1] = camel)[2]

\* the keys of Object.entries(map) whose value is an object
ObjectKeys(map) ==
  IF map.kind # "object" THEN {}
  ELSE {key \in DOMAIN map.val : ~NotAnObject(map.val[key])}

TotalsNode(record) ==
  [f \in FieldNames |-> toNumeric(Field(record, f, SnakeOf(f)))]

\* a null body passes the typeof test and reading its property throws
fetchTransferTotals(raw) ==
  IF raw.kind = "null" THEN Failed
  ELSE LET rawTotals == IF NotAnObject(raw) THEN Undefined ELSE Get(raw, "totals")
       IN  [status |-> "ok",
            intervalSeconds |->
              toNumeric(IF raw.kind \in {"object", "array"}
                        THEN Field(raw, "intervalSeconds", "interval_seconds")
                        ELSE Num(0)),
            totals |-> [node \in ObjectKeys(rawTotals) |->
                          TotalsNode(rawTotals.val[node])]]

DiskUsageUsageNode(metrics) ==
  [capacity |-> toNumeric(Get(metrics, "capacity")),
   usage |-> toNumeric(Get(metrics, "usage")),
   trash |-> toNumeric(Get(metrics, "trash"))]

DiskUsagePeriod(periodValue) ==
  [nodeName \in ObjectKeys(periodValue) |->
     DiskUsageUsageNode(periodValue.val[nodeName])]

fetchDiskUsageUsage(data) ==
  LET raw == Nullish(data, Obj([k \in {} |-> 0]))
      periodEntries == Get(raw, "periods")
  IN  [status |-> "ok",
       periods |-> [period \in ObjectKeys(periodEntries) |->
                      DiskUsagePeriod(periodEntries.val[period])]]

\* fetchIntervalTransfers hands response.data on as it is
fetchIntervalTransfers(data) == data

\* fetchPayoutPaystubs: Number.isFinite(parsed) ? parsed : 0
ensureNumber(value) ==
  LET parsed == Number(value)
  IN  IF isFinite(parsed) THEN parsed ELSE Num(0)

\* the numeric fields of a paystub that are also read by their snake_case name
PaystubUsageFields ==
  {<<"usageAtRest", "usage_at_rest">>, <<"usageGet", "usage_get">>,
   <<"usagePut", "usage_put">>, <<"usageGetRepair", "usage_get_repair">>,
   <<"usagePutRepair", "usage_put_repair">>, <<"usageGetAudit", "usage_get_audit">>,
   <<"compAtRest", "comp_at_rest">>, <<"compGet", "comp_get">>,
   <<"compPut", "comp_put">>, <<"compGetRepair", "comp_get_repair">>,
   <<"compPutRepair", "comp_put_repair">>, <<"compGetAudit", "comp_get_audit">>,
   <<"surgePercent", "surge_percent">>}

PaystubAmountFields == {"held", "owed", "disposed", "paid", "distributed"}

PaystubTextFields == {"source", "satelliteId", "period", "created"}

sanitizeRecord(item) ==
  [f \in PaystubTextFields \cup PaystubAmountFields
          \cup {pair[1] : pair \in PaystubUsageFields} |->
     IF f = "satelliteId"
       THEN Str(String(Nullish(Field(item, "satelliteId", "satellite_id"), Str(""))))
     ELSE IF f \in PaystubTextFields
       THEN Str(String(Nullish(Get(item, f), Str(""))))
     ELSE IF f \in PaystubAmountFields
       THEN ensureNumber(Get(item, f))
     ELSE ensureNumber(Field(item, f,
                             (CHOOSE pair \in PaystubUsageFields : pair[1] = f)[2]))]

\* the entries of a period that are kept: !entry || typeof entry !== "object"
\* skips the others
PaystubEntries(records) ==
  SelectSeq(records.val, LAMBDA entry : ~NotAnObject(entry))

\* a variant that keeps the first entry of a period only
normalizedPaystubs_First(records) ==
  LET entries == PaystubEntries(records)
  IN  IF entries = <<>> THEN <<>> ELSE <<sanitizeRecord(entries[1])>>

normalizedPaystubs(records) ==
  LET entries == PaystubEntries(records)
  IN  [i \in 1..Len(entries) |-> sanitizeRecord(entries[i])]

\* the periods of the body are those of an object under "periods"; a period
\* is kept when its value is an array with at least one entry kept
fetchPayoutPaystubs(raw) ==
  LET rawPeriods ==
        IF ~Falsy(raw) /\ raw.kind = "object" /\ "periods" \in DOMAIN raw.val
          THEN Nullish(raw.val["periods"], Obj([k \in {} |-> Undefined]))
          ELSE Obj([k \in {} |-> Undefined])
      kept == IF rawPeriods.kind # "object" THEN {}
              ELSE {period \in DOMAIN rawPeriods.val :
                      /\ rawPeriods.val[period].kind = "array"
                      /\ Len(normalizedPaystubs(rawPeriods.val[period])) > 0}
  IN  [status |-> "ok",
       periods |-> [period \in kept |-> normalizedPaystubs(rawPeriods.val[period])]]

(***************************************************************************)
(* utils/units: the unit a rate is shown in.  The size units and the text  *)
(* of a formatted value (toFixed) are left out.                            *)
(***************************************************************************)
RATE_UNITS ==
  <<[unit |-> "bps", factor |-> 1], [unit |-> "Kbps", factor |-> 1000],
    [unit |-> "Mbps", factor |-> 1000000]>>

normalizePositive(value) ==
  IF isFinite(value) /\ JsGt(value, Num(0)) THEN value ELSE Num(0)

\* the first unit in which the value lies in [1, limit), else the largest unit
\* when the value reaches it, else the first unit
PickUnit(units, safe, limit) ==
  LET fits(i) == LET c == JsDiv(safe, Num(units[i].factor))
                 IN  JsGe(c, Num(1)) /\ JsLt(c, Num(limit))
      largest == units[Len(units)]
  IN  IF \E i \in 1..Len(units) : fits(i)
      THEN units[CHOOSE i \in 1..Len(units) :
                   fits(i) /\ \A j \in 1..(i - 1) : ~fits(j)]
      ELSE IF JsGe(safe, Num(largest.factor)) THEN largest
      ELSE units[1]

pickRateUnit(bitRate) == PickUnit(RATE_UNITS, normalizePositive(bitRate), 1000)

pickRatePresentation(bitRate) ==
  LET unit == pickRateUnit(bitRate)
  IN  [value |-> JsDiv(normalizePositive(bitRate), Num(unit.factor)),
       unit |-> unit.unit, factor |-> unit.factor]

(***************************************************************************)
(* ActualPerformancePanel.                                                 *)
(***************************************************************************)
combineCategoryMetrics(category) ==
  [operationsTotal |->
     JsAdd(category.normal.operationsTotal, category.repair.operationsTotal),
   operationsSuccess |->
     JsAdd(category.normal.operationsSuccess, category.repair.operationsSuccess),
   dataBytes |-> JsAdd(category.normal.dataBytes, category.repair.dataBytes),
   rate |-> JsAdd(category.normal.rate, category.repair.rate)]

\* a buildMetricView whose success rate divides without looking at the total
SuccessRate_Unguarded(success, total) == JsMul(JsDiv(success, total), Num(100))

\* total > 0 ? (success / total) * 100 : 0
SuccessRate(success, total) ==
  IF JsGt(total, Num(0)) THEN JsMul(JsDiv(success, total), Num(100)) ELSE Num(0)

\* a conversion that shows bytes/second as if they were bits/second
BitRate_NoFactor(bytesRate) == bytesRate

\* bytes/second to bits/second
BitRate(bytesRate) == JsMul(bytesRate, Num(8))

buildMetricView(operationsTotal, operationsSuccess, rateBytesPerSecond, dataBytes) ==
  LET total == IF isFinite(operationsTotal) THEN operationsTotal ELSE Num(0)
      success == IF isFinite(operationsSuccess) THEN operationsSuccess ELSE Num(0)
      bytesRate == IF isFinite(rateBytesPerSecond) THEN rateBytesPerSecond ELSE Num(0)
      bytesTotal == IF isFinite(dataBytes) THEN dataBytes ELSE Num(0)
      bitRate == BitRate(bytesRate)
      rate == pickRatePresentation(bitRate)
  IN  [operationsTotal |-> total,
       operationsSuccess |-> success,
       successRate |-> SuccessRate(success, total),
       bitRate |-> bitRate,
       rateValue |-> rate.value, rateUnit |-> rate.unit, rateFactor |-> rate.factor,
       dataBytes |-> bytesTotal]

(***************************************************************************)
(* NodeComparePanel: the slices of the transfer charts.                    *)
(***************************************************************************)
EMPTY_RESPONSE ==
  [status |-> "ok", intervalSeconds |-> Num(0), totals |-> [n \in {} |-> 0]]

\* a panel that divides by the interval of the response as it came
safeIntervalSeconds_Raw(data) == Number(Nullish(data.intervalSeconds, Num(0)))

safeIntervalSeconds(data) ==
  LET intervalSeconds == Number(Nullish(data.intervalSeconds, Num(0)))
  IN  IF JsGt(intervalSeconds, Num(0)) THEN intervalSeconds ELSE Num(1)

formatSpeedMetric(value) ==
  LET bitsPerSecond == BitRate(value)
      rate == pickRatePresentation(bitsPerSecond)
  IN  [value |-> rate.value, unit |-> rate.unit, factor |-> rate.factor]

NodeSlices(totals, mode, interval) ==
  LET F(f) == Nullish(totals[f], Num(0))
      downloadSize == JsAdd(F("sizeDlSuccNor"), F("sizeDlSuccRep"))
      uploadSize == JsAdd(F("sizeUlSuccNor"), F("sizeUlSuccRep"))
      downloadFailSize == JsAdd(F("sizeDlFailNor"), F("sizeDlFailRep"))
      uploadFailSize == JsAdd(F("sizeUlFailNor"), F("sizeUlFailRep"))
      downloadCount == JsAdd(F("countDlSuccNor"), F("countDlSuccRep"))
      uploadCount == JsAdd(F("countUlSuccNor"), F("countUlSuccRep"))
      downloadFail == JsAdd(F("countDlFailNor"), F("countDlFailRep"))
      uploadFail == JsAdd(F("countUlFailNor"), F("countUlFailRep"))
      downloadSuccessNumerator == IF mode = "count" THEN downloadCount ELSE downloadSize
      downloadSuccessDenominator ==
        IF mode = "count" THEN JsAdd(downloadCount, downloadFail)
        ELSE JsAdd(downloadSize, downloadFailSize)
      uploadSuccessNumerator == IF mode = "count" THEN uploadCount ELSE uploadSize
      uploadSuccessDenominator ==
        IF mode = "count" THEN JsAdd(uploadCount, uploadFail)
        ELSE JsAdd(uploadSize, uploadFailSize)
  IN  [download |->
         IF mode = "speed" THEN JsDiv(downloadSize, interval)
         ELSE IF mode = "count" THEN downloadCount ELSE downloadSize,
       upload |->
         IF mode = "speed" THEN JsDiv(uploadSize, interval)
         ELSE IF mode = "count" THEN uploadCount ELSE uploadSize,
       downloadSuccessRate |->
         SuccessRate(downloadSuccessNumerator, downloadSuccessDenominator),
       uploadSuccessRate |->
         SuccessRate(uploadSuccessNumerator, uploadSuccessDenominator),
       downloadSuccessDenominator |-> downloadSuccessDenominator,
       uploadSuccessDenominator |-> uploadSuccessDenominator]

transferCharts(data, mode) ==
  [node \in DOMAIN data.totals |->
     NodeSlices(data.totals[node], mode, safeIntervalSeconds(data))]

(***************************************************************************)
(* HourlyTrafficPanel and AccumulatedTrafficPanel: the rows of a bucket    *)
(* list.  An ISO timestamp is a string value whose num is the instant it   *)
(* denotes, in whole seconds; a Date made of anything else is invalid.     *)
(***************************************************************************)
Iso(seconds) == JsVal("string", seconds, 1, "iso")

IsIso(value) == value.kind = "string" /\ value.val = "iso"

\* be.getTime() - bs.getTime(), in milliseconds
MillisBetween(bs, be) ==
  IF IsIso(bs) /\ IsIso(be) THEN Num((be.num - bs.num) * 1000) ELSE NaN

\* Math.max(1, Math.floor((be.getTime() - bs.getTime()) / 1000))
BucketSeconds(b) ==
  JsMax(Num(1),
        JsFloor(JsDiv(MillisBetween(Get(b, "bucketStart"), Get(b, "bucketEnd")),
                      Num(1000))))

\* Array.isArray(res.buckets) ? res.buckets : []
BucketsOf(res) ==
  IF Get(res, "buckets").kind = "array" THEN Get(res, "buckets").val ELSE <<>>

HourlyRow(b) ==
  LET F(f) == Nullish(Get(b, f), Num(0))
      dlSuccess == JsAdd(F("countDlSuccNor"), F("countDlSuccRep"))
      dlTotal == JsAdd(JsAdd(dlSuccess, F("countDlFailNor")), F("countDlFailRep"))
      ulSuccess == JsAdd(F("countUlSuccNor"), F("countUlSuccRep"))
      ulTotal == JsAdd(JsAdd(ulSuccess, F("countUlFailNor")), F("countUlFailRep"))
      dlBytes == JsAdd(F("sizeDlSuccNor"), F("sizeDlSuccRep"))
      ulBytes == JsAdd(F("sizeUlSuccNor"), F("sizeUlSuccRep"))
      seconds == BucketSeconds(b)
      dlBps == JsDiv(dlBytes, seconds)
      ulBps == JsDiv(ulBytes, seconds)
  IN  [bucketStart |-> Get(b, "bucketStart"),
       bucketEnd |-> Get(b, "bucketEnd"),
       dlRatePct |-> SuccessRate(dlSuccess, dlTotal),
       ulRatePct |-> SuccessRate(ulSuccess, ulTotal),
       dlTotal |-> dlTotal, ulTotal |-> ulTotal,
       dlBytes |-> dlBytes, ulBytes |-> ulBytes,
       dlRate |-> pickRatePresentation(BitRate(dlBps)),
       ulRate |-> pickRatePresentation(BitRate(ulBps))]

\* AccumulatedTrafficPanel.chartData in speed mode: bits per second
AccumulatedSpeed(b) ==
  LET F(f) == Nullish(Get(b, f), Num(0))
      seconds == BucketSeconds(b)
      dlBytes == JsAdd(F("sizeDlSuccNor"), F("sizeDlSuccRep"))
      ulBytes == JsAdd(F("sizeUlSuccNor"), F("sizeUlSuccRep"))
  IN  [dl |-> JsDiv(JsMul(dlBytes, Num(8)), seconds),
       ul |-> JsDiv(JsMul(ulBytes, Num(8)), seconds)]

(***************************************************************************)
(* utils/time and Settings: the time-format preference.                    *)
(***************************************************************************)
JsTrue == JsVal("boolean", 1, 1, "")
JsFalse == JsVal("boolean", 0, 1, "")

\* what a locale makes of 23:00 with toLocaleTimeString, the hour12 of its
\* resolved options, and whether formatting throws
Locales ==
  {[sample |-> "11:00 PM", hour12 |-> TRUE, throws |-> FALSE],
   [sample |-> "23:00", hour12 |-> FALSE, throws |-> FALSE],
   [sample |-> "11:00", hour12 |-> TRUE, throws |-> FALSE],
   [sample |-> "", hour12 |-> FALSE, throws |-> TRUE]}

\* ampmPattern.test(sample), on the samples above
ampmPattern(sample) == sample \in {"11:00 PM"}

\* /\b23\b|\b13\b/.test(sample), on the samples above
hourPattern(sample) == sample \in {"23:00"}

\* the detection of the system preference; true when it throws
detect24h(loc) ==
  IF loc.throws THEN TRUE
  ELSE IF ampmPattern(loc.sample) THEN FALSE
  ELSE IF hourPattern(loc.sample) THEN TRUE
  ELSE ~loc.hour12

\* a use24hTime that does not read the preference
use24hTime_DetectOnly(stored, storeMode, loc) == detect24h(loc)

\* localStorage.getItem throws when storage is denied
use24hTime(stored, storeMode, loc) ==
  IF storeMode # "denied" /\ stored = Str("1") THEN TRUE
  ELSE IF storeMode # "denied" /\ stored = Str("0") THEN FALSE
  ELSE detect24h(loc)

\* Settings: the initial prefer24h
initialPrefer24h(stored, storeMode) ==
  IF storeMode = "denied" \/ stored = Null THEN Null
  ELSE IF stored = Str("1") THEN JsTrue ELSE JsFalse

\* applyPrefer24h: removeItem or setItem, a throw is swallowed
storedAfter(stored, storeMode, value) ==
  IF value = Null
    THEN (IF storeMode = "denied" THEN stored ELSE Null)
    ELSE (IF storeMode # "ok" THEN stored
          ELSE Str(IF value = JsTrue THEN "1" ELSE "0"))

(***************************************************************************)
(* utils/requestDeduper.                                                    *)
(***************************************************************************)
\* JSON.stringify of a list of names
RECURSIVE JoinQuoted(_)
JoinQuoted(names) ==
  IF names = <<>> THEN ""
  ELSE "\"" \o Head(names) \o "\""
       \o (IF Len(names) = 1 THEN "" ELSE "," \o JoinQuoted(Tail(names)))

stringify(names) == "[" \o JoinQuoted(names) \o "]"

\* a key that keeps the order of the selection
normalizeSelectionKey_Unsorted(selection) ==
  IF Len(selection) # 0 THEN stringify(selection) ELSE "__ALL__"

normalizeSelectionKey(selection) ==
  IF Len(selection) # 0 THEN stringify(SortNames(selection)) ELSE "__ALL__"

\* Map.prototype.set
MapSet(map, key, value) ==
  [k \in DOMAIN map \cup {key} |-> IF k = key THEN value ELSE map[k]]

\* Map.prototype.delete
MapDelete(map, key) == [k \in DOMAIN map \ {key} |-> map[k]]

\* isDuplicate: windowMs = 1000, as every caller passes it
WindowMs == 1000

\* an isDuplicate that records every call
isDuplicate_AlwaysRecord(map, key, time) ==
  [result |-> key \in DOMAIN map /\ time - map[key] < WindowMs,
   calls |-> MapSet(map, key, time)]

\* isDuplicate on the map calls at Date.now() = time: what it returns and
\* the map it leaves
isDuplicate(map, key, time) ==
  IF key \in DOMAIN map /\ time - map[key] < WindowMs
    THEN [result |-> TRUE, calls |-> map]
    ELSE [result |-> FALSE, calls |-> MapSet(map, key, time)]

(***************************************************************************)
(* DataSizeDistributionPanel: the order of the size classes.               *)
(***************************************************************************)
SIZE_ORDER == <<"1K", "4K", "16K", "64K", "256K", "1M", "BIG">>

SIZE_LABELS ==
  [sizeClass \in Range(SIZE_ORDER) |->
     CASE sizeClass = "1K" -> "< 1KB"
       [] sizeClass = "4K" -> "< 4KB"
       [] sizeClass = "16K" -> "< 16KB"
       [] sizeClass = "64K" -> "< 64KB"
       [] sizeClass = "256K" -> "< 256KB"
       [] sizeClass = "1M" -> "< 1MB"
       [] sizeClass = "BIG" -> "> 1MB"]

\* String.prototype.toUpperCase, on the texts a size class is given as
toUpperCase(text) ==
  CASE text = "1k" -> "1K"
    [] text = "4k" -> "4K"
    [] text = "big" -> "BIG"
    [] text = "huge" -> "HUGE"
    [] OTHER -> text

\* SIZE_ORDER.indexOf(key): counted from 0, -1 when absent
indexOf(key) ==
  IF key \in Range(SIZE_ORDER)
    THEN (CHOOSE i \in 1..Len(SIZE_ORDER) : SIZE_ORDER[i] = key) - 1
    ELSE -1

\* an orderIndex that hands on what indexOf returns
orderIndex_Raw(sc) ==
  IF Falsy(sc) THEN Len(SIZE_ORDER) + 1 ELSE indexOf(toUpperCase(String(sc)))

orderIndex(sc) ==
  IF Falsy(sc) THEN Len(SIZE_ORDER) + 1
  ELSE LET idx == indexOf(toUpperCase(String(sc)))
       IN  IF idx = -1 THEN Len(SIZE_ORDER) + 1 ELSE idx

\* Array.prototype.sort is stable: an item goes behind the items that do not
\* compare greater
RECURSIVE SortBySizeClass(_)
SortBySizeClass(items) ==
  IF items = <<>> THEN <<>>
  ELSE LET last == items[Len(items)]
           sorted == SortBySizeClass(SubSeq(items, 1, Len(items) - 1))
           before == {i \in 1..Len(sorted) :
                        orderIndex(Get(sorted[i], "sizeClass"))
                          - orderIndex(Get(last, "sizeClass")) <= 0}
           at == IF before = {} THEN 0 ELSE CHOOSE i \in before : \A j \in before : j <= i
       IN  SubSeq(sorted, 1, at) \o <<last>> \o SubSeq(sorted, at + 1, Len(sorted))

\* Array.isArray(data?.distribution) ? data.distribution : [], sorted
normalizedItems(result) ==
  LET distribution == IF result.status # "ok" THEN Undefined
                      ELSE Get(result.res, "distribution")
  IN  SortBySizeClass(IF distribution.kind = "array" THEN distribution.val ELSE <<>>)

\* SIZE_LABELS[raw] ?? it.sizeClass ?? String(raw)
SizeClassLabel(it) ==
  LET raw == toUpperCase(String(Nullish(Get(it, "sizeClass"), Str(""))))
  IN  IF raw \in DOMAIN SIZE_LABELS THEN SIZE_LABELS[raw]
      ELSE String(Nullish(Get(it, "sizeClass"), Str(raw)))

(***************************************************************************)
(* useSelectedNodes: the node selection store.                             *)
(***************************************************************************)
\* a toggleNode that leaves an emptied selection empty
toggleNode_KeepEmpty(sel, name, availableNodeNames) ==
  IF name = "All" THEN <<"All">>
  ELSE LET n1 == IF Includes(sel, "All") THEN <<>> ELSE sel
           n2 == IF Includes(n1, name) THEN FilterOut(n1, name)
                 ELSE Append(n1, name)
       IN  IF Len(n2) = Len(availableNodeNames) THEN <<"All">>
           ELSE n2

toggleNode(sel, name, availableNodeNames) ==
  IF name = "All" THEN <<"All">>
  ELSE LET n1 == IF Includes(sel, "All") THEN <<>> ELSE sel
           n2 == IF Includes(n1, name) THEN FilterOut(n1, name)
                 ELSE Append(n1, name)
       IN  IF Len(n2) = 0 THEN <<"All">>
           ELSE IF Len(n2) = Len(availableNodeNames) THEN <<"All">>
           ELSE n2

(***************************************************************************)
(* usePanelVisibility: the map of panel flags.  A key that is absent from  *)
(* the stored map is absent from the function's domain.                    *)
(***************************************************************************)
DEFAULT_PANELS ==
  [id \in {"nodeCompare", "reputations", "actualPerformance", "satelliteTraffic",
           "dataDistribution", "hourlyTransfers", "accumulatedTraffic", "longTerm"}
     |-> id # "longTerm"]

\* { ...a, ...b }
Spread(a, b) ==
  [k \in DOMAIN a \cup DOMAIN b |-> IF k \in DOMAIN b THEN b[k] ELSE a[k]]

isVisible(p, panelId) == IF panelId \in DOMAIN p THEN p[panelId] ELSE FALSE

\* togglePanel: the next map, { ...DEFAULT_PANELS, ...panels, [panelId]: !current }
togglePanel(p, panelId) ==
  LET current == IF panelId \in DOMAIN p THEN p[panelId] ELSE TRUE
  IN  Spread(Spread(DEFAULT_PANELS, p), [k \in {panelId} |-> ~current])

\* the maps localStorage may hold under monstr.panelVisibility at start-up
StoredPanels ==
  { [k \in {} |-> TRUE],
    [k \in {"diskUsage", "hourlyTraffic", "longTerm"} |-> TRUE],
    [k \in {"diskUsage", "nodeCompare"} |-> k = "diskUsage"] }

InitialPanels == {Spread(DEFAULT_PANELS, parsed) : parsed \in StoredPanels}

(***************************************************************************)
(* The node filter each hook or panel puts into its request.               *)
(***************************************************************************)
\* useTransfersActual: requestNodes, also handed to the panels as selectedNodes
requestNodes(selected) == IF Includes(selected, "All") THEN <<>> ELSE selected

\* useReputationsPanel
requestPayload(selected) == IF Includes(selected, "All") THEN <<>> ELSE selected

\* a HomePage that hands the store's selection to the panels unchanged
selectedNodesProp_Raw(selected) == selected

\* HomePage: the selectedNodes prop of the panels
selectedNodesProp(selected) == requestNodes(selected)

\* NodeComparePanel.load
nodeCompareNodesArg(selectedNodes) ==
  IF Len(selectedNodes) = 0 THEN <<>> ELSE selectedNodes

\* ActualPerformancePanel.refreshPayout
payoutNodesArg(selectedNodes) ==
  IF Len(selectedNodes) > 0 /\ ~Includes(selectedNodes, "All")
  THEN selectedNodes ELSE <<>>

\* HourlyTrafficPanel.load, AccumulatedTrafficPanel.load
intervalNodes(selectedNodes) ==
  IF Includes(selectedNodes, "All") THEN <<>> ELSE selectedNodes

\* useDiskUsageUsage.refresh
nodeFilter(nodes) == IF Includes(nodes, "All") THEN <<>> ELSE nodes

\* LongTermPanel: requestNodes
longTermRequestNodes(selectedNodes) ==
  IF Len(selectedNodes) = 0 \/ Includes(selectedNodes, "All") THEN <<>>
  ELSE SortNames(FilterOut(selectedNodes, "All"))

VARIABLES
  selected,   \* useSelectedNodes: selected
  nodes,      \* useNodeStore: names of the nodes loaded from GET /nodes
  panels,     \* usePanelVisibility: panels
  sent,       \* the request sent last: endpoint, nodes, and the selection then
  panel,      \* the hook or panel that is followed
  response,   \* the body of its response in flight, or Idle
  body,       \* the body of the response it handled last
  data,       \* its data state
  mode,       \* NodeComparePanel: mode
  metricArgs, \* the arguments of a buildMetricView call
  metricView, \* what buildMetricView returned last
  now,        \* back end: the clock, in seconds
  ticks,      \* back end: how often the clock was advanced
  log,        \* back end: the lines of each source's log, parsed
  cursor,     \* Source: durable cursor, the count of lines done with
  pending,    \* Ingestion Pipeline: where it is with the next line of a source
  attempts,   \* Ingestion Pipeline: failed writes of the next line of a source
  restarts,   \* back end: how often the process crashed and started again
  store,      \* Event Store: the rows, in the order they were written
  committed,  \* history: the lines of each source whose write was committed
  ingested,   \* history: the values ingested last for each paystub key
  answer,     \* Query API: the interval query answered in the last step
  storage,    \* localStorage: the value under pref_time_24h, null when absent
  storageMode, \* localStorage: "ok", "full" (writes throw) or "denied" (all throw)
  locale,     \* the browser's locale, as far as the time format shows it
  prefer24h,  \* Settings: prefer24h
  system24,   \* what use24hTime() returned when the panels asked last
  picked,     \* history: the time format the user picked last
  clock,      \* Date.now(), in milliseconds
  calls,      \* requestDeduper: calls, the time recorded for a key
  inFlight,   \* requestDeduper: inFlight, the promise stored for a key
  promises,   \* the promises coalesce created: key, state, what fn was
  coalesced,  \* history: the coalesce calls made, in order
  checked,    \* history: the isDuplicate call made last
  proceeded,  \* history: per key, when isDuplicate last returned false
  toggled,    \* history: the toggleNode call made last
  component,  \* the component whose requests are followed
  mounted,    \* whether the component is mounted
  mountedRef, \* mountedRef.current / isMountedRef.current
  props,      \* the selection and interval (or range, mode) it renders with
  requestIdRef, \* requestIdRef.current / payoutRequestIdRef.current
  loads,      \* the calls of load that sent a request, in order
  view,       \* the component state: data, usageChange, error, isLoading
  arrived,    \* history: the request that settled last
  changeMade, \* history: the change of selection or interval made last
  panelStore, \* localStorage: the map stored under monstr.panelVisibility
  flipped     \* history: the togglePanel call made last

requestVars == <<selected, nodes, panels, sent>>

viewVars == <<panel, response, body, data, mode, metricArgs, metricView>>

serverVars ==
  <<now, ticks, log, cursor, pending, attempts, restarts, store, committed,
    ingested, answer>>

prefVars == <<storage, storageMode, locale, prefer24h, system24, picked>>

dedupVars == <<clock, calls, inFlight, promises, coalesced, checked, proceeded>>

toggleVars == <<toggled>>

panelVars == <<component, mounted, mountedRef, props, requestIdRef, loads, view,
               arrived, changeMade>>

visibilityVars == <<panelStore, flipped>>

clientVars == <<prefVars, dedupVars, toggleVars, panelVars, visibilityVars>>

vars == <<requestVars, viewVars, serverVars, clientVars>>

\* no response in flight
Idle == JsVal("none", 0, 1, "")

ZeroArgs == <<Num(0), Num(0), Num(0), Num(0)>>

\* the preference as it is without a stored value, in a 24h locale
PrefStart ==
  /\ storage = Null
  /\ storageMode = "ok"
  /\ locale = [sample |-> "23:00", hour12 |-> FALSE, throws |-> FALSE]
  /\ prefer24h = Null
  /\ system24 = TRUE
  /\ picked = Undefined

NoCheck == [key |-> "", nodes |-> {}, time |-> 0, result |-> FALSE, last |-> {},
            before |-> {}, moved |-> FALSE]

\* createRequestDeduper: two empty maps
DedupStart ==
  /\ clock = 0
  /\ calls = <<>>
  /\ inFlight = <<>>
  /\ promises = <<>>
  /\ coalesced = <<>>
  /\ checked = NoCheck
  /\ proceeded = <<>>

NoToggle == [name |-> "", availableNodeNames |-> <<>>, before |-> <<>>]

ToggleStart == toggled = NoToggle

NoArrival == [load |-> 0, latest |-> 0, mounted |-> TRUE, changed |-> FALSE]

NoChange == [what |-> "none", issued |-> FALSE]

\* useState initial values: no data, no error, not loading
InitialView == [data |-> 0, usageChange |-> 0, error |-> FALSE, isLoading |-> FALSE]

PanelStart ==
  /\ component = "nodeCompare"
  /\ mounted = TRUE
  /\ mountedRef = TRUE
  /\ props = [selection |-> <<>>, interval |-> "1d"]
  /\ requestIdRef = 0
  /\ loads = <<>>
  /\ view = InitialView
  /\ arrived = NoArrival
  /\ changeMade = NoChange

NoFlip == [panelId |-> "", was |-> FALSE, twoAgo |-> {}]

\* nothing stored under monstr.panelVisibility
NoPanelsStored == [k \in {} |-> TRUE]

VisibilityStart ==
  /\ panelStore = NoPanelsStored
  /\ flipped = NoFlip

ClientStart == PrefStart /\ DedupStart /\ ToggleStart /\ PanelStart /\ VisibilityStart

\* no panel is followed
NoResponse ==
  /\ panel = "none"
  /\ response = Idle
  /\ body = Undefined
  /\ data = NoData
  /\ mode = "size"
  /\ metricArgs = ZeroArgs
  /\ metricView = buildMetricView(Num(0), Num(0), Num(0), Num(0))

(***************************************************************************)
(* The back end, as spec.md describes it: sources with a durable cursor,   *)
(* the ingestion pipeline, the event store, the retention manager and the  *)
(* aggregation query engine.                                               *)
(***************************************************************************)
\* Source Registry: the configured sources, each bound to a node name
Sources == {"1", "2"}

\* the clock at the start; a multiple of every interval length
Epoch == 8812800

\* by how many seconds the clock advances in one step
TickSteps == {10, 3600}

\* Retention Manager: the configured horizon, in seconds
RetentionHorizon == 3600

\* Retention Manager: rows deleted in one batch
BatchSize == 1

\* Parser: the events a line may parse to
LineKinds ==
  { [table |-> "transfer", field |-> "DlSuccNor", size |-> 2048,
     sat |-> "s1", period |-> "", value |-> 0],
    [table |-> "transfer", field |-> "UlFailRep", size |-> 500,
     sat |-> "s1", period |-> "", value |-> 0],
    [table |-> "paystub", field |-> "", size |-> 0,
     sat |-> "s1", period |-> "2025-01", value |-> 1],
    [table |-> "paystub", field |-> "", size |-> 0,
     sat |-> "s1", period |-> "2025-01", value |-> 2] }

\* the row a line of source s is stored as: the node is that of the source
Row(s, line) ==
  [table |-> line.event.table, node |-> s, sat |-> line.event.sat,
   period |-> line.event.period, ts |-> line.ts, field |-> line.event.field,
   size |-> line.event.size, value |-> line.event.value]

\* PaystubRecord: the key (node, satelliteId, period)
Key(row) == <<row.node, row.sat, row.period>>

Upsert(rows, row) ==
  SelectSeq(rows, LAMBDA r : ~(r.table = "paystub" /\ Key(r) = Key(row)))
    \o <<row>>

\* a pipeline that inserts every event, a paystub too
Write_AppendOnly(rows, row) == Append(rows, row)

\* Ingestion Pipeline: paystubs are upserts by key, all else is appended
Write(rows, row) ==
  IF row.table = "paystub" THEN Upsert(rows, row) ELSE Append(rows, row)

\* a pipeline that moves the cursor on whenever a line is waiting
CanAdvance_Eager(s) == cursor[s] < Len(log[s])

\* Ingestion Pipeline: the cursor moves only after the write is committed
CanAdvance(s) == pending[s] = "committed"

\* a Retention Manager that prunes every table
RetentionTables_All == {"transfer", "reputation", "diskUsage", "paystub"}

\* Retention Manager: the tables it prunes
RetentionTables == {"transfer", "reputation", "diskUsage"}

Expired(row) == row.table \in RetentionTables /\ row.ts < now - RetentionHorizon

\* the rows without the first n expired ones
RECURSIVE DeleteBatch(_, _)
DeleteBatch(rows, n) ==
  IF rows = <<>> \/ n = 0 THEN rows
  ELSE IF Expired(Head(rows)) THEN DeleteBatch(Tail(rows), n - 1)
  ELSE <<Head(rows)>> \o DeleteBatch(Tail(rows), n)

NoAnswer == [panel |-> "none"]

\* the back end started on empty logs and an empty store
ServerStart ==
  /\ now = Epoch
  /\ ticks = 0
  /\ log = [s \in Sources |-> <<>>]
  /\ cursor = [s \in Sources |-> 0]
  /\ pending = [s \in Sources |-> "idle"]
  /\ attempts = [s \in Sources |-> 0]
  /\ restarts = 0
  /\ store = <<>>
  /\ committed = [s \in Sources |-> {}]
  /\ ingested = [k \in {} |-> 0]
  /\ answer = NoAnswer

NoRequest == [endpoint |-> "none", nodes |-> <<>>, sel |-> <<>>]

Request(endpoint, ns) == [endpoint |-> endpoint, nodes |-> ns, sel |-> selected]

Init ==
  /\ selected = <<"All">>
  /\ nodes = <<>>
  /\ panels \in InitialPanels
  /\ sent = NoRequest
  /\ NoResponse
  /\ ServerStart
  /\ ClientStart

\* useNodes.load: GET /nodes answered, setNodes(data)
SetNodes ==
  /\ \E k \in 0..MaxNodes : nodes' = NodeList(k)
  /\ UNCHANGED <<selected, panels, sent>>
  /\ UNCHANGED <<viewVars, serverVars, clientVars>>

\* NodesPanel.handleSelection: a click on "All" or on a listed node
HandleSelection ==
  /\ \E name \in {"All"} \cup Range(nodes) :
       selected' = toggleNode(selected, name, nodes)
  /\ UNCHANGED <<nodes, panels, sent>>
  /\ UNCHANGED <<viewVars, serverVars, clientVars>>

\* useTransfersActual.load
LoadTransfersActual ==
  /\ isVisible(panels, "satelliteTraffic") \/ isVisible(panels, "actualPerformance")
  /\ sent' = Request("/transfers/actual", requestNodes(selected))
  /\ UNCHANGED <<selected, nodes, panels>>
  /\ UNCHANGED <<viewVars, serverVars, clientVars>>

\* useReputationsPanel.load
LoadReputations ==
  /\ isVisible(panels, "reputations")
  /\ sent' = Request("/reputations/panel", requestPayload(selected))
  /\ UNCHANGED <<selected, nodes, panels>>
  /\ UNCHANGED <<viewVars, serverVars, clientVars>>

\* NodeComparePanel.load: totals, then the disk usage change of the same nodes
LoadNodeCompare ==
  /\ isVisible(panels, "nodeCompare")
  /\ \E ep \in {"/transfer-grouped/totals", "/diskusage/usage-change"} :
       sent' = Request(ep, nodeCompareNodesArg(selectedNodesProp(selected)))
  /\ UNCHANGED <<selected, nodes, panels>>
  /\ UNCHANGED <<viewVars, serverVars, clientVars>>

\* HourlyTrafficPanel.load
LoadHourlyTraffic ==
  /\ isVisible(panels, "hourlyTraffic")
  /\ sent' = Request("/transfer-grouped/intervals", intervalNodes(selected))
  /\ UNCHANGED <<selected, nodes, panels>>
  /\ UNCHANGED <<viewVars, serverVars, clientVars>>

\* AccumulatedTrafficPanel.load
LoadAccumulatedTraffic ==
  /\ isVisible(panels, "accumulatedTraffic")
  /\ sent' = Request("/transfer-grouped/intervals",
                     intervalNodes(selectedNodesProp(selected)))
  /\ UNCHANGED <<selected, nodes, panels>>
  /\ UNCHANGED <<viewVars, serverVars, clientVars>>

\* DataSizeDistributionPanel.load
LoadDataDistribution ==
  /\ isVisible(panels, "dataDistribution")
  /\ sent' = Request("/transfer-grouped/data-distribution",
                     selectedNodesProp(selected))
  /\ UNCHANGED <<selected, nodes, panels>>
  /\ UNCHANGED <<viewVars, serverVars, clientVars>>

\* useDiskUsageUsage.refresh
RefreshDiskUsage ==
  /\ isVisible(panels, "diskUsage")
  /\ sent' = Request("/diskusage/usage", nodeFilter(selectedNodesProp(selected)))
  /\ UNCHANGED <<selected, nodes, panels>>
  /\ UNCHANGED <<viewVars, serverVars, clientVars>>

\* ActualPerformancePanel.refreshPayout
RefreshPayout ==
  /\ isVisible(panels, "actualPerformance")
  /\ sent' = Request("/payout/current", payoutNodesArg(selectedNodesProp(selected)))
  /\ UNCHANGED <<selected, nodes, panels>>
  /\ UNCHANGED <<viewVars, serverVars, clientVars>>

\* LongTermPanel.refresh
RefreshLongTerm ==
  /\ isVisible(panels, "longTerm")
  /\ sent' = Request("/payout/paystubs", longTermRequestNodes(selected))
  /\ UNCHANGED <<selected, nodes, panels>>
  /\ UNCHANGED <<viewVars, serverVars, clientVars>>

Next ==
  \/ SetNodes
  \/ HandleSelection
  \/ LoadTransfersActual
  \/ LoadReputations
  \/ LoadNodeCompare
  \/ LoadHourlyTraffic
  \/ LoadAccumulatedTraffic
  \/ LoadDataDistribution
  \/ RefreshDiskUsage
  \/ RefreshPayout
  \/ RefreshLongTerm

Spec == Init /\ [][Next]_vars

(***************************************************************************)
(* The response bodies the panels are run on.  A field that is absent from *)
(* a body is absent from the object's keys or holds Undefined; both read   *)
(* as undefined.                                                           *)
(***************************************************************************)
Counts == {Num(n) : n \in 0..MaxCount}

\* what a numeric field may hold in a body that a fetch function sanitises
FieldValues == {Undefined, Null, Str("abc"), Str("1e999"), Str("3")} \cup Counts

\* bytes/second: 125 B/s is 1 Kbps
RateValues ==
  {Undefined, Str("1e999"), Num(-5), Num(125)} \cup {Rat(n, 2) : n \in 0..MaxCount}

MetricsObject(total, success, rate, bytes) ==
  Obj([operationsTotal |-> total, operations_success |-> success,
       rate |-> rate, dataBytes |-> bytes])

FixedMetrics == MetricsObject(Num(2), Num(1), Num(125000), Num(2048))

ActualBodies ==
  {Null, Str("Bad Gateway"), Obj([download |-> Null])} \cup
  { Obj([download |-> Obj([normal |-> MetricsObject(t, u, r, b), repair |-> rep]),
         upload |-> Obj([normal |-> FixedMetrics, repair |-> Num(7)]),
         satellites |->
           IF rep = Undefined THEN Undefined
           ELSE Arr(<<Null, Obj([download |-> Obj([normal |-> FixedMetrics])])>>)]) :
      t \in FieldValues, u \in FieldValues, r \in RateValues,
      rep \in {Undefined, FixedMetrics},
      b \in {Num(-1), Num(2048)} }

\* the record of one node in a totals body
TotalsRecord(a, b, c, d) ==
  Obj([sizeDlSuccNor |-> a, size_dl_succ_rep |-> b, sizeDlFailNor |-> c,
       countDlSuccNor |-> d, countDlFailRep |-> c,
       sizeUlSuccNor |-> b, sizeUlFailRep |-> d,
       countUlSuccNor |-> c, count_ul_fail_nor |-> a])

IntervalValues == {Undefined, Str("abc"), Num(-1), Num(60)} \cup Counts

TotalsBodies ==
  {Null, Str("Bad Gateway"), Obj([intervalSeconds |-> Num(60)]),
   Obj([interval_seconds |-> Num(60), totals |-> Arr(<<>>)])} \cup
  { Obj([intervalSeconds |-> iv,
         totals |-> Obj([n \in {"1", "2"} |->
                           IF n = "1" THEN TotalsRecord(a, b, c, d) ELSE other])]) :
      iv \in IntervalValues, a \in FieldValues,
      b \in {Undefined, Num(0), Num(MaxCount)}, c \in Counts, d \in {Num(0), Num(1)},
      other \in {Null, TotalsRecord(Num(1), Num(1), Num(1), Num(1))} }

\* a field of a bucket is a number, null or absent
BucketValues == {Undefined, Null} \cup Counts

\* 450 bytes in an hour are 1 bit/second
BucketSizes == {Undefined, Num(450), Num(450000)} \cup Counts

Bucket(a, b, c, size, from, to) ==
  Obj([bucketStart |-> from, bucketEnd |-> to,
       countDlSuccNor |-> a, countDlSuccRep |-> b, countDlFailNor |-> c,
       countUlSuccNor |-> c, countUlFailRep |-> a,
       sizeDlSuccNor |-> size, sizeUlSuccRep |-> size])

HourlyBodies ==
  {Null, Str("Bad Gateway"), Obj([startTime |-> Iso(0)]),
   Obj([buckets |-> Arr(<<>>)])} \cup
  { Obj([startTime |-> Iso(0), endTime |-> Iso(7200),
         buckets |-> Arr(<<Bucket(a, b, c, size, Iso(0), to)>> \o rest)]) :
      a \in BucketValues, b \in {Undefined, Num(1)}, c \in Counts,
      size \in BucketSizes,
      to \in {Undefined, Iso(0), Iso(3600)},
      rest \in {<<>>, <<Bucket(Num(0), Num(0), Num(0), Num(0), Iso(3600), Iso(7200))>>} }

DiskUsageBodies ==
  {Null, Str("Bad Gateway"), Obj([periods |-> Null])} \cup
  { Obj([periods |->
           Obj([p \in {"2025-01", "2025-02"} |->
                  IF p = "2025-02" THEN other
                  ELSE Obj([n \in {"1"} |->
                              Obj([capacity |-> c, usage |-> u, trash |-> t])])])]) :
      c \in FieldValues, u \in FieldValues, t \in {Undefined, Num(1)},
      other \in {Null, Obj([n \in {"2"} |-> Num(5)])} }

\* numbers buildMetricView may be called with
MetricNumbers == {NaN, PosInfinity, NegInfinity, Num(-5), Num(125)} \cup Counts

MODE_VALUES == {"size", "count", "speed"}

(***************************************************************************)
(* The panels.  They share no data, so a behaviour follows one of them:    *)
(* its first response is any body of its endpoint, a later refresh brings  *)
(* one of RefreshBodies.                                                   *)
(***************************************************************************)
\* the size classes of a response: the seven, two of them in lower case, and
\* classes the panel does not know
SizeClasses ==
  {Str("1K"), Str("4K"), Str("big"), Str("1k"), Str("XL"), Str("huge"), Undefined}

RECURSIVE ItemLists(_)
ItemLists(n) ==
  IF n = 0 THEN {<<>>}
  ELSE LET shorter == ItemLists(n - 1)
       IN  shorter \cup
           {Append(items, Obj([sizeClass |-> c, countDlSuccNor |-> Num(1)])) :
              items \in {l \in shorter : Len(l) = n - 1}, c \in SizeClasses}

DistributionBodies ==
  {Null, Obj([distribution |-> Null])} \cup
  {Obj([distribution |-> Arr(items)]) : items \in ItemLists(MaxItems)}

\* the entries of a period of a /payout/paystubs response: two records, one
\* of them with snake_case names and a text for a number, and entries that
\* are no records
PaystubItems ==
  {Obj([satelliteId |-> Str("s1"), period |-> Str("2025-01"), held |-> Num(1)]),
   Obj([satellite_id |-> Str("s2"), owed |-> Str("3"), comp_get |-> Num(2)]),
   Null, Str("n/a")}

RECURSIVE PaystubLists(_)
PaystubLists(n) ==
  IF n = 0 THEN {<<>>}
  ELSE LET shorter == PaystubLists(n - 1)
       IN  shorter \cup
           {Append(items, item) :
              items \in {l \in shorter : Len(l) = n - 1}, item \in PaystubItems}

PaystubPeriodValues ==
  {Null, Obj([satelliteId |-> Str("s3")])}
  \cup {Arr(items) : items \in PaystubLists(MaxRecords)}

PaystubBodies ==
  {Null, Str("Bad Gateway"), Obj([periods |-> Null]), Obj([periods |-> Str("none")]),
   Obj([periods |-> Obj([p \in {"2025-02"} |-> Arr(<<Obj([satelliteId |-> Str("s1")])>>)])])}
  \cup {Obj([periods |-> Obj([p \in {"2025-01", "2025-02"} |->
                                IF p = "2025-01" THEN first ELSE second])]) :
          first \in PaystubPeriodValues, second \in PaystubPeriodValues}

RefreshBodies == {Null, Obj([k \in {} |-> Undefined])}

\* the body that arrives next
Arriving == IF response = Idle THEN RefreshBodies ELSE {response}

\* ActualPerformancePanel: aggregated?.download.operationsTotal ?? 0, ...
MetricArgsOf(result, direction) ==
  IF result.status # "ok" THEN ZeroArgs
  ELSE LET m == combineCategoryMetrics(result[direction])
       IN  <<m.operationsTotal, m.operationsSuccess, m.rate, m.dataBytes>>

\* useTransfersActual.load, then the panel builds the view of one direction
ReceiveTransfersActual ==
  /\ panel = "actualPerformance"
  /\ \E b \in Arriving, direction \in {"download", "upload"} :
       LET fetched == fetchActualPerformance(b)
           result == IF fetched = Failed THEN NoData ELSE fetched
           args == MetricArgsOf(result, direction)
       IN  /\ body' = b
           /\ data' = result
           /\ metricArgs' = args
           /\ metricView' = buildMetricView(args[1], args[2], args[3], args[4])
  /\ response' = Idle
  /\ UNCHANGED <<panel, mode, requestVars, serverVars, clientVars>>

\* buildMetricView on any numbers, also those no response brings about: each
\* call differs from the one before in one argument
CallBuildMetricView ==
  /\ panel = "buildMetricView"
  /\ \E i \in 1..3, v \in MetricNumbers :
       LET args == [metricArgs EXCEPT ![i] = v]
       IN  /\ metricArgs' = args
           /\ metricView' = buildMetricView(args[1], args[2], args[3], args[4])
  /\ UNCHANGED <<panel, response, body, data, mode, requestVars, serverVars, clientVars>>

\* NodeComparePanel.load
ReceiveTransferTotals ==
  /\ panel = "nodeCompare"
  /\ \E b \in Arriving :
       LET fetched == fetchTransferTotals(b)
       IN  /\ body' = b
           /\ data' = IF fetched = Failed THEN EMPTY_RESPONSE ELSE fetched
  /\ response' = Idle
  /\ UNCHANGED <<panel, mode, metricArgs, metricView, requestVars, serverVars, clientVars>>

\* NodeComparePanel: setMode
SetMode ==
  /\ panel = "nodeCompare"
  /\ \E m \in MODE_VALUES \ {mode} : mode' = m
  /\ UNCHANGED <<panel, response, body, data, metricArgs, metricView, requestVars, serverVars, clientVars>>

\* HourlyTrafficPanel.load: reading res.startTime of a null body throws and
\* the catch leaves data as it is
ReceiveIntervalTransfers ==
  /\ panel = "hourlyTraffic"
  /\ \E b \in Arriving :
       LET res == fetchIntervalTransfers(b)
       IN  /\ body' = b
           /\ data' = IF res.kind \in {"null", "undefined"} THEN data
                      ELSE [status |-> "ok", buckets |-> BucketsOf(res)]
  /\ response' = Idle
  /\ UNCHANGED <<panel, mode, metricArgs, metricView, requestVars, serverVars, clientVars>>

\* useDiskUsageUsage.refresh
ReceiveDiskUsageUsage ==
  /\ panel = "diskUsage"
  /\ \E b \in Arriving :
       /\ body' = b
       /\ data' = fetchDiskUsageUsage(b)
  /\ response' = Idle
  /\ UNCHANGED <<panel, mode, metricArgs, metricView, requestVars, serverVars, clientVars>>

\* DataSizeDistributionPanel.load: fetchDataDistribution hands response.data on
ReceiveDataDistribution ==
  /\ panel = "dataDistribution"
  /\ \E b \in Arriving :
       /\ body' = b
       /\ data' = [status |-> "ok", res |-> b]
  /\ response' = Idle
  /\ UNCHANGED <<panel, mode, metricArgs, metricView, requestVars, serverVars, clientVars>>

\* LongTermPanel.refresh: setPeriods(payload.periods ?? {})
ReceivePayoutPaystubs ==
  /\ panel = "longTerm"
  /\ \E b \in Arriving :
       /\ body' = b
       /\ data' = fetchPayoutPaystubs(b)
  /\ response' = Idle
  /\ UNCHANGED <<panel, mode, metricArgs, metricView, requestVars, serverVars, clientVars>>

\* the panel followed, with its first response in flight
Mounted(p, bodies, initial) ==
  /\ panel = p
  /\ response \in bodies
  /\ data = initial
  /\ metricArgs = ZeroArgs

InitView ==
  /\ selected = <<"All">>
  /\ nodes = <<>>
  /\ panels = DEFAULT_PANELS
  /\ sent = NoRequest
  /\ body = Undefined
  /\ metricView = buildMetricView(Num(0), Num(0), Num(0), Num(0))
  /\ ServerStart
  /\ ClientStart
  /\ \/ Mounted("actualPerformance", ActualBodies, NoData) /\ mode = "size"
     \/ Mounted("nodeCompare", TotalsBodies, EMPTY_RESPONSE) /\ mode \in MODE_VALUES
     \/ Mounted("hourlyTraffic", HourlyBodies, NoData) /\ mode = "size"
     \/ Mounted("diskUsage", DiskUsageBodies, NoData) /\ mode = "size"
     \/ Mounted("dataDistribution", DistributionBodies, NoData) /\ mode = "size"
     \/ Mounted("longTerm", PaystubBodies, [status |-> "ok", periods |-> <<>>])
          /\ mode = "size"
     \/ Mounted("buildMetricView", {Idle}, NoData) /\ mode = "size"

NextView ==
  \/ ReceiveTransfersActual
  \/ CallBuildMetricView
  \/ ReceiveTransferTotals
  \/ SetMode
  \/ ReceiveIntervalTransfers
  \/ ReceiveDiskUsageUsage
  \/ ReceiveDataDistribution
  \/ ReceivePayoutPaystubs

SpecView == InitView /\ [][NextView]_vars

(***************************************************************************)
(* The back end at work: ingestion and retention.                          *)
(***************************************************************************)
TotalLines == Len(log["1"]) + Len(log["2"])

\* a node process writes a line to its log
AppendLine ==
  /\ TotalLines < MaxLines
  /\ \E s \in Sources, e \in LineKinds :
       log' = [log EXCEPT ![s] = Append(@, [event |-> e, ts |-> now])]
  /\ answer' = NoAnswer
  /\ UNCHANGED <<now, ticks, cursor, pending, attempts, restarts, store, committed,
                 ingested, requestVars, viewVars, clientVars>>

\* the line after the cursor of source s is waiting to be written
Waiting(s) == pending[s] = "idle" /\ cursor[s] < Len(log[s])

\* Tailer, Parser and Ingestion Pipeline: the next line of a source is read,
\* parsed and its event written to the store; the write is committed
CommitWrite ==
  /\ \E s \in Sources :
       /\ Waiting(s)
       /\ LET row == Row(s, log[s][cursor[s] + 1])
          IN  /\ store' = Write(store, row)
              /\ ingested' =
                   IF row.table # "paystub" THEN ingested
                   ELSE [k \in DOMAIN ingested \cup {Key(row)} |->
                           IF k = Key(row) THEN row.value ELSE ingested[k]]
       /\ committed' = [committed EXCEPT ![s] = @ \cup {cursor[s] + 1}]
       /\ pending' = [pending EXCEPT ![s] = "committed"]
  /\ answer' = NoAnswer
  /\ UNCHANGED <<now, ticks, log, cursor, attempts, restarts, requestVars, viewVars, clientVars>>

\* storage write failure: nothing is written, the line is tried again later
WriteFail ==
  /\ \E s \in Sources :
       /\ Waiting(s)
       /\ attempts[s] < MaxRetries
       /\ attempts' = [attempts EXCEPT ![s] = @ + 1]
  /\ answer' = NoAnswer
  /\ UNCHANGED <<now, ticks, log, cursor, pending, restarts, store, committed,
                 ingested, requestVars, viewVars, clientVars>>

\* Ingestion Pipeline: the cursor of a source moves past the line written
AdvanceCursor ==
  /\ \E s \in Sources :
       /\ CanAdvance(s)
       /\ cursor' = [cursor EXCEPT ![s] = @ + 1]
       /\ pending' = [pending EXCEPT ![s] = "idle"]
       /\ attempts' = [attempts EXCEPT ![s] = 0]
  /\ answer' = NoAnswer
  /\ UNCHANGED <<now, ticks, log, restarts, store, committed, ingested, requestVars, viewVars, clientVars>>

\* the process crashes and starts again: what was in memory is lost, the
\* store and the cursors are as they were committed
Crash ==
  /\ restarts < MaxRestarts
  /\ restarts' = restarts + 1
  /\ pending' = [s \in Sources |-> "idle"]
  /\ attempts' = [s \in Sources |-> 0]
  /\ answer' = NoAnswer
  /\ UNCHANGED <<now, ticks, log, cursor, store, committed, ingested, requestVars, viewVars, clientVars>>

\* Retention Manager: one batch of rows older than the horizon is deleted
RetentionBatch ==
  /\ \E i \in 1..Len(store) : Expired(store[i])
  /\ store' = DeleteBatch(store, BatchSize)
  /\ answer' = NoAnswer
  /\ UNCHANGED <<now, ticks, log, cursor, pending, attempts, restarts, committed,
                 ingested, requestVars, viewVars, clientVars>>

\* time passes
Tick ==
  /\ ticks < MaxTicks
  /\ ticks' = ticks + 1
  /\ \E step \in TickSteps : now' = now + step
  /\ answer' = NoAnswer
  /\ UNCHANGED <<log, cursor, pending, attempts, restarts, store, committed,
                 ingested, requestVars, viewVars, clientVars>>

InitServer ==
  /\ selected = <<"All">>
  /\ nodes = <<>>
  /\ panels = DEFAULT_PANELS
  /\ sent = NoRequest
  /\ NoResponse
  /\ ServerStart
  /\ ClientStart

NextIngest ==
  \/ AppendLine
  \/ CommitWrite
  \/ WriteFail
  \/ AdvanceCursor
  \/ Crash
  \/ RetentionBatch
  \/ Tick

SpecIngest == InitServer /\ [][NextIngest]_vars

(***************************************************************************)
(* Settings: the user picks a time format.                                 *)
(***************************************************************************)
\* applyPrefer24h(value); the pref_time_24h_changed event makes the panels
\* call use24hTime() again
ApplyPrefer24h ==
  /\ \E value \in {Null, JsFalse, JsTrue} :
       /\ prefer24h' = value
       /\ storage' = storedAfter(storage, storageMode, value)
       /\ system24' = use24hTime(storedAfter(storage, storageMode, value),
                                 storageMode, locale)
       /\ picked' = value
  /\ UNCHANGED <<storageMode, locale, dedupVars, toggleVars, visibilityVars, panelVars, requestVars,
                 viewVars, serverVars>>

\* the page loads with whatever an earlier visit or another script left under
\* the key
InitPrefs ==
  /\ selected = <<"All">>
  /\ nodes = <<>>
  /\ panels = DEFAULT_PANELS
  /\ sent = NoRequest
  /\ NoResponse
  /\ ServerStart
  /\ storage \in {Null, Str("1"), Str("0"), Str("true")}
  /\ storageMode \in {"ok", "full", "denied"}
  /\ locale \in Locales
  /\ prefer24h = initialPrefer24h(storage, storageMode)
  /\ system24 = use24hTime(storage, storageMode, locale)
  /\ picked = Undefined
  /\ DedupStart
  /\ ToggleStart
  /\ PanelStart
  /\ VisibilityStart

NextPrefs == ApplyPrefer24h

SpecPrefs == InitPrefs /\ [][NextPrefs]_vars

(***************************************************************************)
(* requestDeduper at work: calls of coalesce, isDuplicate and record on    *)
(* one deduper, promises settling, time passing.                           *)
(***************************************************************************)
\* the selections a caller passes: lists of distinct node names
DedupSelections == {<<>>, <<"1">>, <<"2">>, <<"1", "2">>, <<"2", "1">>}

\* the selections the callers of isDuplicate and record pass
WindowSelections == {<<>>, <<"1", "2">>, <<"2", "1">>}

TimeSteps == {400, 600}

\* the promises that are pending for the same set of names
PendingFor(selection) ==
  {id \in 1..Len(promises) :
     /\ promises[id].state = "pending"
     /\ promises[id].nodes = Range(selection)}

\* coalesce, the finally clause: inFlight.delete(key)
CoalesceSettled(key) == MapDelete(inFlight, key)

\* coalesce(selection, fn).  fn is an async function (it returns a promise
\* that settles later) or one that throws when called: then the finally
\* clause has run before inFlight.set(key, promise)
Coalesce ==
  /\ Len(coalesced) < MaxCalls
  /\ \E selection \in DedupSelections, fn \in {"async", "throws"} :
       LET key == normalizeSelectionKey(selection)
           id == Len(promises) + 1
           Call(promise, invoked) ==
             [selection |-> selection, promise |-> promise, invoked |-> invoked,
              pendingThen |-> PendingFor(selection)]
       IN  IF key \in DOMAIN inFlight
             THEN /\ coalesced' = Append(coalesced, Call(inFlight[key], FALSE))
                  /\ UNCHANGED <<calls, inFlight, promises>>
           ELSE IF fn = "async"
             THEN /\ promises' = Append(promises,
                                        [key |-> key, nodes |-> Range(selection),
                                         state |-> "pending", fn |-> fn])
                  /\ inFlight' = MapSet(inFlight, key, id)
                  /\ coalesced' = Append(coalesced, Call(id, TRUE))
                  /\ UNCHANGED calls
           ELSE /\ promises' = Append(promises,
                                      [key |-> key, nodes |-> Range(selection),
                                       state |-> "rejected", fn |-> fn])
                /\ calls' = MapSet(calls, key, clock)
                /\ inFlight' = MapSet(CoalesceSettled(key), key, id)
                /\ coalesced' = Append(coalesced, Call(id, TRUE))
  /\ UNCHANGED <<clock, checked, proceeded, prefVars, toggleVars, visibilityVars, panelVars, requestVars,
                 viewVars, serverVars>>

\* the promise fn returned settles: the finally clause of coalesce runs
Settle ==
  /\ \E id \in 1..Len(promises), outcome \in {"fulfilled", "rejected"} :
       /\ promises[id].state = "pending"
       /\ promises' = [promises EXCEPT ![id].state = outcome]
       /\ calls' = MapSet(calls, promises[id].key, clock)
       /\ inFlight' = CoalesceSettled(promises[id].key)
  /\ UNCHANGED <<clock, coalesced, checked, proceeded, prefVars, toggleVars, visibilityVars, panelVars,
                 requestVars, viewVars, serverVars>>

\* isDuplicate(selection, 1000)
IsDuplicate ==
  /\ \E selection \in WindowSelections :
       LET key == normalizeSelectionKey(selection)
           call == isDuplicate(calls, key, clock)
       IN  /\ calls' = call.calls
           /\ checked' = [key |-> key, nodes |-> Range(selection), time |-> clock,
                          result |-> call.result,
                          last |-> IF key \in DOMAIN calls THEN {calls[key]} ELSE {},
                          before |-> IF key \in DOMAIN proceeded
                                       THEN {proceeded[key]} ELSE {},
                          moved |-> key \notin DOMAIN calls
                                    \/ call.calls[key] # calls[key]]
           /\ proceeded' = IF call.result THEN proceeded
                           ELSE MapSet(proceeded, key, clock)
  /\ UNCHANGED <<clock, inFlight, promises, coalesced, prefVars, toggleVars, visibilityVars, panelVars,
                 requestVars, viewVars, serverVars>>

\* record(selection)
Record ==
  /\ \E selection \in WindowSelections :
       calls' = MapSet(calls, normalizeSelectionKey(selection), clock)
  /\ UNCHANGED <<clock, inFlight, promises, coalesced, checked, proceeded,
                 prefVars, toggleVars, visibilityVars, panelVars, requestVars, viewVars, serverVars>>

\* time passes
ClockTick ==
  /\ \E step \in TimeSteps :
       /\ clock + step <= MaxTime
       /\ clock' = clock + step
  /\ UNCHANGED <<calls, inFlight, promises, coalesced, checked, proceeded,
                 prefVars, toggleVars, visibilityVars, panelVars, requestVars, viewVars, serverVars>>

InitDeduper ==
  /\ selected = <<"All">>
  /\ nodes = <<>>
  /\ panels = DEFAULT_PANELS
  /\ sent = NoRequest
  /\ NoResponse
  /\ ServerStart
  /\ ClientStart

\* coalesce calls on one deduper, their promises settling
NextDeduper ==
  \/ Coalesce
  \/ Settle
  \/ ClockTick

SpecDeduper == InitDeduper /\ [][NextDeduper]_vars

\* isDuplicate and record calls on one deduper
NextWindow ==
  \/ IsDuplicate
  \/ Record
  \/ ClockTick

SpecWindow == InitDeduper /\ [][NextWindow]_vars

(***************************************************************************)
(* useSelectedNodes on its own: toggleNode called with any name and any    *)
(* list of available names.                                                *)
(***************************************************************************)
\* the names passed: "All", the configured names and one that is not listed
ToggleNames == {"All", "other"} \cup NodeNames

\* the lists passed as availableNodeNames
AvailableLists == {NodeList(k) : k \in 0..MaxNodes} \cup {<<"3", "1">>, <<"All">>}

ToggleNode ==
  /\ \E name \in ToggleNames, availableNodeNames \in AvailableLists :
       /\ selected' = toggleNode(selected, name, availableNodeNames)
       /\ toggled' = [name |-> name, availableNodeNames |-> availableNodeNames,
                      before |-> selected]
  /\ UNCHANGED <<nodes, panels, sent>>
  /\ UNCHANGED <<viewVars, serverVars, prefVars, dedupVars, panelVars, visibilityVars>>

InitToggle ==
  /\ selected = <<"All">>
  /\ nodes = <<>>
  /\ panels = DEFAULT_PANELS
  /\ sent = NoRequest
  /\ NoResponse
  /\ ServerStart
  /\ ClientStart

NextToggle == ToggleNode

SpecToggle == InitToggle /\ [][NextToggle]_vars

(***************************************************************************)
(* usePanelVisibility on its own: the check boxes of Settings call         *)
(* togglePanel.                                                            *)
(***************************************************************************)
\* the ids of the check boxes of Settings
PanelIds == DOMAIN DEFAULT_PANELS \cup {"diskUsage", "hourlyTraffic"}

\* persistPanels: localStorage.setItem, which may throw
persistPanels(stored, storeMode, next) == IF storeMode = "ok" THEN next ELSE stored

TogglePanel ==
  /\ \E panelId \in PanelIds :
       /\ panels' = togglePanel(panels, panelId)
       /\ panelStore' = persistPanels(panelStore, storageMode, panels')
       /\ flipped' = [panelId |-> panelId, was |-> isVisible(panels, panelId),
                      twoAgo |-> IF flipped.panelId = panelId THEN {flipped.was}
                                 ELSE {}]
  /\ UNCHANGED <<selected, nodes, sent>>
  /\ UNCHANGED <<viewVars, serverVars, prefVars, dedupVars, toggleVars, panelVars>>

InitVisibility ==
  /\ selected = <<"All">>
  /\ nodes = <<>>
  /\ \E parsed \in StoredPanels :
       /\ panels = Spread(DEFAULT_PANELS, parsed)
       /\ panelStore = parsed
  /\ flipped = NoFlip
  /\ sent = NoRequest
  /\ NoResponse
  /\ ServerStart
  /\ storage = Null
  /\ storageMode \in {"ok", "full", "denied"}
  /\ locale = [sample |-> "23:00", hour12 |-> FALSE, throws |-> FALSE]
  /\ prefer24h = Null
  /\ system24 = TRUE
  /\ picked = Undefined
  /\ DedupStart
  /\ ToggleStart
  /\ PanelStart

NextVisibility == TogglePanel

SpecVisibility == InitVisibility /\ [][NextVisibility]_vars

(***************************************************************************)
(* The requests of one component: load is called when the component        *)
(* mounts, when its selection or interval changes, and by its timer or     *)
(* refresh button; responses and failures arrive in any order.             *)
(*                                                                         *)
(* In view, data and usageChange hold the number of the request whose      *)
(* response they show, 0 for the initial value and -1 for the value a      *)
(* failure leaves (EMPTY_RESPONSE, null, {} or []).                        *)
(***************************************************************************)
Components ==
  {"nodeCompare", "payout", "transfersActual", "reputations",
   "accumulatedTraffic", "hourlyTraffic", "longTerm", "diskUsage"}

\* how the component decides whether a settled request may write
GuardOf(c) ==
  IF c \in {"nodeCompare", "payout"} THEN "requestId"
  ELSE IF c \in {"transfersActual", "reputations"} THEN "isCurrent"
  ELSE "none"

\* the components whose load returns early on deduper.isDuplicate
Gated(c) == c \in {"nodeCompare", "payout", "hourlyTraffic", "diskUsage"}

\* the components whose request carries an interval, range or mode
HasInterval(c) == c \in {"nodeCompare", "accumulatedTraffic", "diskUsage"}

\* the components that empty their data on a failure
ClearsOnFailure(c) ==
  c \in {"nodeCompare", "payout", "transfersActual", "reputations", "longTerm"}

\* the components that have an error state
HasError(c) == c # "payout"

PanelSelections == {<<>>, <<"1">>}

Intervals == {"1h", "1d"}

\* a component that writes whatever settles
GuardPasses_Always(c, ld) == TRUE

\* mountedRef.current && requestId === requestIdRef.current, or isCurrent
GuardPasses(c, ld) ==
  IF GuardOf(c) = "requestId"
    THEN mountedRef /\ ld.requestId = requestIdRef
  ELSE IF GuardOf(c) = "isCurrent" THEN ld.isCurrent
  ELSE TRUE

\* the effect cleanup of the isCurrent components: isCurrent = false
Cleanup(ls) == [i \in 1..Len(ls) |-> [ls[i] EXCEPT !.isCurrent = FALSE]]

\* what load writes before it awaits
Started(c, p) ==
  [view EXCEPT !.isLoading = TRUE,
               !.error = IF HasError(c) THEN FALSE ELSE @,
               !.usageChange = IF c = "nodeCompare" /\ p.interval = "1h" THEN 0 ELSE @]

\* load() of the component rendering with p.  issued says whether a request
\* was sent
CallLoad(p, what) ==
  LET key == normalizeSelectionKey(p.selection)
      call == IF Gated(component) THEN isDuplicate(calls, key, clock)
              ELSE [result |-> FALSE, calls |-> calls]
      before == IF GuardOf(component) = "isCurrent" THEN Cleanup(loads) ELSE loads
  IN  /\ calls' = call.calls
      /\ changeMade' = [what |-> what, issued |-> ~call.result]
      /\ IF call.result
           THEN /\ loads' = before
                /\ UNCHANGED <<requestIdRef, view>>
           ELSE /\ requestIdRef' = IF GuardOf(component) = "requestId"
                                     THEN requestIdRef + 1 ELSE requestIdRef
                /\ loads' = Append(before,
                                   [args |-> p,
                                    requestId |-> IF GuardOf(component) = "requestId"
                                                    THEN requestIdRef + 1 ELSE 0,
                                    isCurrent |-> TRUE, phase |-> "pending"])
                /\ view' = Started(component, p)

\* the timer fires or the user presses refresh: load with the same props
Reload ==
  /\ mounted
  /\ Len(loads) < MaxLoads
  /\ CallLoad(props, "none")
  /\ UNCHANGED <<component, mounted, mountedRef, props, arrived>>
  /\ UNCHANGED <<clock, inFlight, promises, coalesced, checked, proceeded>>
  /\ UNCHANGED <<prefVars, toggleVars, visibilityVars, requestVars, viewVars, serverVars>>

\* the user selects other nodes: the effect runs load
ChangeSelection ==
  /\ mounted
  /\ Len(loads) < MaxLoads
  /\ \E selection \in PanelSelections \ {props.selection} :
       /\ props' = [props EXCEPT !.selection = selection]
       /\ CallLoad(props', "selection")
  /\ UNCHANGED <<component, mounted, mountedRef, arrived>>
  /\ UNCHANGED <<clock, inFlight, promises, coalesced, checked, proceeded>>
  /\ UNCHANGED <<prefVars, toggleVars, visibilityVars, requestVars, viewVars, serverVars>>

\* the user picks another interval, range or mode: the effect runs load
ChangeInterval ==
  /\ mounted
  /\ HasInterval(component)
  /\ Len(loads) < MaxLoads
  /\ \E interval \in Intervals \ {props.interval} :
       /\ props' = [props EXCEPT !.interval = interval]
       /\ CallLoad(props', "interval")
  /\ UNCHANGED <<component, mounted, mountedRef, arrived>>
  /\ UNCHANGED <<clock, inFlight, promises, coalesced, checked, proceeded>>
  /\ UNCHANGED <<prefVars, toggleVars, visibilityVars, requestVars, viewVars, serverVars>>

\* the component unmounts: the cleanups run
Unmount ==
  /\ mounted
  /\ mounted' = FALSE
  /\ mountedRef' = FALSE
  /\ loads' = IF GuardOf(component) = "isCurrent" THEN Cleanup(loads) ELSE loads
  /\ UNCHANGED <<component, props, requestIdRef, view, arrived, changeMade>>
  /\ UNCHANGED <<dedupVars, prefVars, toggleVars, visibilityVars, requestVars, viewVars, serverVars>>

\* what the continuation of request i writes when its fetch settles
Settled(c, i, outcome, passes) ==
  LET ld == loads[i]
      more == c = "nodeCompare" /\ ld.phase = "pending" /\ outcome = "ok"
              /\ ld.args.interval # "1h"
  IN  IF ~passes THEN view
      ELSE IF ld.phase = "usage"
        THEN [view EXCEPT !.usageChange = IF outcome = "ok" THEN i ELSE -1,
                          !.isLoading = FALSE]
      ELSE IF outcome = "ok"
        THEN [view EXCEPT !.data = i,
                          !.isLoading = IF more THEN @ ELSE FALSE]
      ELSE [view EXCEPT !.data = IF ClearsOnFailure(c) THEN -1 ELSE @,
                        !.usageChange = IF c = "nodeCompare" THEN -1 ELSE @,
                        !.error = IF HasError(c) THEN TRUE ELSE @,
                        !.isLoading = FALSE]

\* a fetch of request i is answered or fails
Settle_Request ==
  /\ \E i \in 1..Len(loads), outcome \in {"ok", "fail"} :
       LET ld == loads[i]
           passes == GuardPasses(component, ld)
           more == component = "nodeCompare" /\ ld.phase = "pending"
                   /\ outcome = "ok" /\ ld.args.interval # "1h"
       IN  /\ ld.phase \in {"pending", "usage"}
           /\ loads' = [loads EXCEPT ![i].phase = IF more THEN "usage" ELSE outcome]
           /\ view' = Settled(component, i, outcome, passes)
           /\ arrived' = [load |-> i, latest |-> Len(loads), mounted |-> mounted,
                          changed |-> view' # view]
  /\ UNCHANGED <<component, mounted, mountedRef, props, requestIdRef, changeMade>>
  /\ UNCHANGED <<dedupVars, prefVars, toggleVars, visibilityVars, requestVars, viewVars, serverVars>>

\* time passes
PanelTick ==
  /\ \E step \in TimeSteps :
       /\ clock + step <= MaxTime
       /\ clock' = clock + step
  /\ UNCHANGED <<calls, inFlight, promises, coalesced, checked, proceeded>>
  /\ UNCHANGED <<panelVars, prefVars, toggleVars, visibilityVars, requestVars, viewVars, serverVars>>

InitPanels ==
  /\ selected = <<"All">>
  /\ nodes = <<>>
  /\ panels = DEFAULT_PANELS
  /\ sent = NoRequest
  /\ NoResponse
  /\ ServerStart
  /\ PrefStart
  /\ DedupStart
  /\ ToggleStart
  /\ VisibilityStart
  /\ component \in Components
  /\ mounted = TRUE
  /\ mountedRef = TRUE
  /\ props \in [selection : PanelSelections, interval : Intervals]
  /\ HasInterval(component) \/ props.interval = "1h"
  /\ requestIdRef = 0
  /\ loads = <<>>
  /\ view = InitialView
  /\ arrived = NoArrival
  /\ changeMade = NoChange

NextPanels ==
  \/ Reload
  \/ ChangeSelection
  \/ ChangeInterval
  \/ Unmount
  \/ Settle_Request
  \/ PanelTick

SpecPanels == InitPanels /\ [][NextPanels]_vars

(***************************************************************************)
(* The Aggregation Query Engine and the panels that ask it for buckets.    *)
(***************************************************************************)
\* the length of an interval, in seconds
IntervalSeconds(intervalLength) ==
  CASE intervalLength = "10s" -> 10
    [] intervalLength = "2m" -> 120
    [] intervalLength = "10m" -> 600
    [] intervalLength = "1h" -> 3600
    [] intervalLength = "6h" -> 21600
    [] intervalLength = "1d" -> 86400
    [] intervalLength = "3d" -> 259200

\* a transfer row of a node the filter selects; the empty filter selects all
Matches(row, filter) ==
  row.table = "transfer" /\ (filter = {} \/ row.node \in filter)

\* a bucket that counts the event on its end too
InBucket_Closed(ts, from, to) == from <= ts /\ ts <= to

\* buckets are half open: the start is in, the end is out
InBucket(ts, from, to) == from <= ts /\ ts < to

RECURSIVE SumField(_, _)
SumField(rows, f) ==
  IF rows = <<>> THEN 0
  ELSE (IF f = "size" \o Head(rows).field THEN Head(rows).size
        ELSE IF f = "count" \o Head(rows).field THEN 1 ELSE 0)
       + SumField(Tail(rows), f)

\* a time span without events: all fields are zero
ZeroFields == [f \in FieldNames |-> 0]

\* the 16 size and count fields of the matching rows of a time span
FieldsOver(matching, from, to) ==
  LET inside == SelectSeq(matching, LAMBDA r : InBucket(r.ts, from, to))
  IN  IF inside = <<>> THEN ZeroFields
      ELSE [f \in FieldNames |-> SumField(inside, f)]

\* bucket boundaries are multiples of the width counted from the UTC epoch:
\* the most recent boundary that time t has completed
LastBoundary(width, t) == (t \div width) * width

\* all N buckets of the given width, back to back, ending on boundary end
AllBuckets(matching, width, N, end) ==
  [i \in 1..N |->
     [bucketStart |-> end - (N - i + 1) * width,
      bucketEnd |-> end - (N - i) * width,
      fields |-> FieldsOver(matching, end - (N - i + 1) * width,
                            end - (N - i) * width)]]

\* bucketing that leaves out the buckets without events
IntervalBuckets_OmitEmpty(filter, width, N, t) ==
  SelectSeq(AllBuckets(SelectSeq(store, LAMBDA r : Matches(r, filter)),
                       width, N, LastBoundary(width, t)),
            LAMBDA b : b.fields # ZeroFields)

\* interval bucketing: N buckets of the given width, back to back, the last
\* one ending on the most recent boundary; a bucket without events is there
\* with zero fields
IntervalBuckets(filter, width, N, t) ==
  AllBuckets(SelectSeq(store, LAMBDA r : Matches(r, filter)),
             width, N, LastBoundary(width, t))

\* totals: the same fields summed per node over a time span
TotalsOver(filter, from, to) ==
  [node \in (IF filter = {} THEN Sources ELSE filter) |->
     FieldsOver(SelectSeq(store, LAMBDA r : Matches(r, {node})), from, to)]

RANGE_MAP ==
  [range \in {"5m", "1h", "6h", "30h", "8d", "30d", "90d"} |->
     CASE range = "5m" -> [intervalLength |-> "10s", numberOfIntervals |-> 30]
       [] range = "1h" -> [intervalLength |-> "2m", numberOfIntervals |-> 30]
       [] range = "6h" -> [intervalLength |-> "10m", numberOfIntervals |-> 36]
       [] range = "30h" -> [intervalLength |-> "1h", numberOfIntervals |-> 30]
       [] range = "8d" -> [intervalLength |-> "6h", numberOfIntervals |-> 32]
       [] range = "30d" -> [intervalLength |-> "1d", numberOfIntervals |-> 30]
       [] range = "90d" -> [intervalLength |-> "3d", numberOfIntervals |-> 30]]

\* the interval requests of the panels: HourlyTrafficPanel.load asks for nine
\* buckets of one hour, AccumulatedTrafficPanel.load for those of its range
IntervalRequests ==
  {[panel |-> "hourlyTraffic", intervalLength |-> "1h", numberOfIntervals |-> 9]}
  \cup {[panel |-> "accumulatedTraffic",
         intervalLength |-> RANGE_MAP[range].intervalLength,
         numberOfIntervals |-> RANGE_MAP[range].numberOfIntervals] :
          range \in DOMAIN RANGE_MAP}

\* a panel asks for buckets; the engine answers from the committed rows, and
\* with the totals of the same nodes over the span of the buckets.  The
\* engine keeps no state: asked again before anything changed it answers the
\* same, so one answer is followed at a time
QueryIntervals ==
  /\ answer = NoAnswer
  /\ \E request \in IntervalRequests, filter \in SUBSET Sources :
       LET width == IntervalSeconds(request.intervalLength)
           N == request.numberOfIntervals
           end == LastBoundary(width, now)
       IN  answer' =
             [panel |-> request.panel,
              intervalLength |-> request.intervalLength,
              numberOfIntervals |-> request.numberOfIntervals,
              nodes |-> filter,
              at |-> now,
              buckets |-> IntervalBuckets(filter, width, N, now),
              totals |-> TotalsOver(filter, end - N * width, end)]
  /\ UNCHANGED <<now, ticks, log, cursor, pending, attempts, restarts, store,
                 committed, ingested, requestVars, viewVars, clientVars>>

NextQuery ==
  \/ AppendLine
  \/ CommitWrite
  \/ AdvanceCursor
  \/ Tick
  \/ QueryIntervals

SpecQuery == InitServer /\ [][NextQuery]_vars

\* a bucket as the panels receive it
BucketJson(b) ==
  Obj([f \in FieldNames \cup {"bucketStart", "bucketEnd"} |->
         IF f = "bucketStart" THEN Iso(b.bucketStart)
         ELSE IF f = "bucketEnd" THEN Iso(b.bucketEnd)
         ELSE Num(b.fields[f])])

\* the paystub rows of the store that carry key k
PaystubRows(k) ==
  {i \in 1..Len(store) : store[i].table = "paystub" /\ Key(store[i]) = k}

(***************************************************************************)
(* C1: an empty nodes array means all configured nodes.  Whenever the      *)
(* selection is the "All" sentinel, the request a hook or panel sends      *)
(* carries nodes = [] and never the name "All"; when specific nodes are    *)
(* selected it carries exactly those names.                                *)
(***************************************************************************)
C1_EmptyNodesMeansAll ==
  sent.endpoint # "none" =>
    /\ ~Includes(sent.nodes, "All")
    /\ Includes(sent.sel, "All") => sent.nodes = <<>>
    /\ ~Includes(sent.sel, "All") =>
         /\ Range(sent.nodes) = Range(sent.sel)
         /\ Len(sent.nodes) = Len(sent.sel)

C1_Witness ==
  /\ sent.endpoint = "/payout/paystubs"
  /\ sent.sel = <<"2", "1">>
  /\ sent.nodes = <<"1", "2">>

(***************************************************************************)
(* C2: division by zero in a success-rate computation yields zero.  Each   *)
(* success rate the client derives (the operations success rate of         *)
(* buildMetricView, the download and upload rate of an hourly bucket, the  *)
(* download and upload rate of a node in Node Compare) is 0 when its       *)
(* denominator is 0 and a finite number otherwise.                         *)
(***************************************************************************)
C2_ZeroOrFinite(rate, denominator) ==
  IF denominator = Num(0) THEN rate = Num(0) ELSE isFinite(rate)

C3_FiniteMetrics(m) ==
  /\ isFinite(m.operationsTotal)
  /\ isFinite(m.operationsSuccess)
  /\ isFinite(m.dataBytes)
  /\ isFinite(m.rate)

C3_FiniteCategories(item) ==
  \A direction \in {"download", "upload"}, category \in {"normal", "repair"} :
    C3_FiniteMetrics(item[direction][category])

C3_Absent(collection) == Get(body, collection).kind \notin {"object", "array"}

C3_SanitisedFieldsAreFinite ==
  /\ panel = "actualPerformance" /\ data.status = "ok" =>
       /\ C3_FiniteCategories(data)
       /\ \A i \in 1..Len(data.satellites) : C3_FiniteCategories(data.satellites[i])
       /\ C3_Absent("satellites") => data.satellites = <<>>
  /\ panel = "nodeCompare" =>
       /\ isFinite(data.intervalSeconds)
       /\ \A node \in DOMAIN data.totals, f \in FieldNames :
            isFinite(data.totals[node][f])
       /\ C3_Absent("totals") => DOMAIN data.totals = {}
  /\ panel = "diskUsage" /\ data.status = "ok" =>
       /\ \A period \in DOMAIN data.periods :
            \A node \in DOMAIN data.periods[period] :
              /\ isFinite(data.periods[period][node].capacity)
              /\ isFinite(data.periods[period][node].usage)
              /\ isFinite(data.periods[period][node].trash)
       /\ C3_Absent("periods") => DOMAIN data.periods = {}

\* the statement for every fetch function: the buckets of
\* fetchIntervalTransfers hold finite numbers too
C3_EveryFieldIsFinite ==
  /\ C3_SanitisedFieldsAreFinite
  /\ panel = "hourlyTraffic" /\ data.status = "ok" =>
       \A i \in 1..Len(data.buckets), f \in FieldNames :
         isFinite(Get(data.buckets[i], f))

\* a totals body with a text in a size field and no intervalSeconds
C3_Witness ==
  /\ panel = "nodeCompare"
  /\ Get(body, "intervalSeconds") = Undefined
  /\ Get(Get(Get(body, "totals"), "1"), "sizeDlSuccNor") = Str("abc")
  /\ data.intervalSeconds = Num(0)
  /\ data.totals["1"].sizeDlSuccNor = Num(0)
  /\ data.totals["1"].sizeUlSuccNor = Num(MaxCount)

(***************************************************************************)
(* C11: the size distribution lists the seven size classes in the fixed    *)
(* order < 1KB, < 4KB, < 16KB, < 64KB, < 256KB, < 1MB, > 1MB whatever the  *)
(* order of the entries in the response; the entries of a class that is    *)
(* not one of the seven come after all entries of the seven, in the order  *)
(* the response had them.  No entry is lost or added.                      *)
(***************************************************************************)
C11_SizeClassesInFixedOrder ==
  (panel = "dataDistribution" /\ data.status = "ok") =>
    LET given == IF Get(data.res, "distribution").kind = "array"
                 THEN Get(data.res, "distribution").val ELSE <<>>
        listed == normalizedItems(data)
        Known(it) == SizeClassLabel(it) \in {SIZE_LABELS[c] : c \in DOMAIN SIZE_LABELS}
        Place(it) == CHOOSE i \in 1..Len(SIZE_ORDER) :
                       SIZE_LABELS[SIZE_ORDER[i]] = SizeClassLabel(it)
    IN  /\ Len(listed) = Len(given)
        /\ \A i, j \in 1..Len(listed) :
             i < j =>
               /\ Known(listed[j]) => Known(listed[i])
               /\ Known(listed[j]) => Place(listed[i]) <= Place(listed[j])
        /\ SelectSeq(listed, LAMBDA it : ~Known(it))
             = SelectSeq(given, LAMBDA it : ~Known(it))
        /\ \A c \in SizeClasses :
             Len(SelectSeq(listed, LAMBDA it : Get(it, "sizeClass") = c))
               = Len(SelectSeq(given, LAMBDA it : Get(it, "sizeClass") = c))

\* a response with an unknown class first, then > 1MB in lower case, then
\* another unknown class: the panel lists > 1MB, then the two unknown ones
C11_Witness ==
  /\ panel = "dataDistribution"
  /\ data.status = "ok"
  /\ Get(data.res, "distribution").kind = "array"
  /\ Len(normalizedItems(data)) = 3
  /\ Get(Get(data.res, "distribution").val[1], "sizeClass") = Str("huge")
  /\ SizeClassLabel(normalizedItems(data)[1]) = "> 1MB"
  /\ SizeClassLabel(normalizedItems(data)[2]) = "huge"
  /\ SizeClassLabel(normalizedItems(data)[3]) = "XL"

(***************************************************************************)
(* C12: paystub history is handed on grouped by period.  For every period  *)
(* of a /payout/paystubs response, the records of its list appear in the   *)
(* result of fetchPayoutPaystubs under the same period, as many as in the  *)
(* response and in the same order; the result has no other period and no   *)
(* other record.  A record is an object entry of the list of a period.     *)
(***************************************************************************)
C12_PaystubsKeptByPeriod ==
  (panel = "longTerm" /\ body # Undefined) =>
    LET given == IF Get(body, "periods").kind = "object"
                 THEN Get(body, "periods").val ELSE <<>>
        Records(p) == IF given[p].kind # "array" THEN <<>>
                      ELSE SelectSeq(given[p].val, LAMBDA e : e.kind = "object")
        Id(record) == Nullish(Get(record, "satelliteId"), Get(record, "satellite_id"))
    IN  /\ data.status = "ok"
        /\ DOMAIN data.periods = {p \in DOMAIN given : Records(p) # <<>>}
        /\ \A p \in DOMAIN data.periods :
             /\ Len(data.periods[p]) = Len(Records(p))
             /\ \A i \in 1..Len(Records(p)) :
                  data.periods[p][i].satelliteId = Id(Records(p)[i])

\* s2 then s1 in 2025-01, s1 alone in 2025-02: the result has s2, s1 under
\* 2025-01 and s1 under 2025-02
C12_Witness ==
  /\ panel = "longTerm"
  /\ Get(body, "periods").kind = "object"
  /\ Get(Get(body, "periods"), "2025-01").kind = "array"
  /\ Len(Get(Get(body, "periods"), "2025-01").val) = 2
  /\ DOMAIN data.periods = {"2025-01", "2025-02"}
  /\ Len(data.periods["2025-01"]) = 2
  /\ data.periods["2025-01"][1].satelliteId = Str("s2")
  /\ data.periods["2025-01"][1].owed = Num(3)
  /\ data.periods["2025-01"][2].satelliteId = Str("s1")
  /\ Len(data.periods["2025-02"]) = 1
  /\ data.periods["2025-02"][1].satelliteId = Str("s1")

C14_OneExecutionPerKey ==
  /\ \A i \in 1..Len(coalesced) :
       coalesced[i].pendingThen # {}
         => /\ ~coalesced[i].invoked
            /\ coalesced[i].promise \in coalesced[i].pendingThen
  /\ \A a, b \in 1..Len(promises) :
       /\ promises[a].state = "pending"
       /\ promises[b].state = "pending"
       /\ promises[a].nodes = promises[b].nodes
       => a = b

\* a call with the names in the other order joins the pending call
C14_Witness ==
  /\ Len(coalesced) >= 2
  /\ coalesced[1].selection = <<"1", "2">>
  /\ coalesced[1].invoked
  /\ coalesced[2].selection = <<"2", "1">>
  /\ ~coalesced[2].invoked
  /\ coalesced[2].promise = coalesced[1].promise

(***************************************************************************)
(* C18: isDuplicate returns true exactly when a call for the same key was  *)
(* recorded less than windowMs ago; otherwise it records the call and      *)
(* returns false.  A call that returns true does not move the recorded     *)
(* time, and a call that returns false is at least windowMs after the      *)
(* previous call for the key that returned false.                          *)
(***************************************************************************)
C18_OneCallPerWindow ==
  checked # NoCheck =>
    /\ checked.result = (\E t \in checked.last : checked.time - t < WindowMs)
    /\ checked.result => ~checked.moved
    /\ ~checked.result => \A t \in checked.before : checked.time - t >= WindowMs
    /\ ~checked.result => /\ checked.key \in DOMAIN proceeded
                          /\ proceeded[checked.key] = checked.time

\* a call let through a full window after the last one let through, with
\* the names in the other order
C18_Witness ==
  /\ checked.nodes = {"1", "2"}
  /\ ~checked.result
  /\ checked.before = {0}
  /\ checked.time = 1000
  /\ checked.last = {0}

(***************************************************************************)
(* C19: when the promise of a coalesced call has settled, whether fn       *)
(* fulfilled, rejected or threw, no in-flight entry for the key remains,   *)
(* and the next coalesce call for the selection invokes its fn again.      *)
(***************************************************************************)
C19_EntryRemovedOnSettlement ==
  /\ \A key \in DOMAIN inFlight : promises[inFlight[key]].state = "pending"
  /\ \A i \in 1..Len(coalesced) :
       coalesced[i].pendingThen = {} => coalesced[i].invoked

(***************************************************************************)
(* C20: after any sequence of toggleNode calls, with any names and any     *)
(* lists of available names, the selection is exactly ["All"] or a         *)
(* non-empty list of distinct node names without "All".                    *)
(***************************************************************************)
C20_SelectionNeverEmptyNorMixed ==
  \/ selected = <<"All">>
  \/ /\ Len(selected) > 0
     /\ ~Includes(selected, "All")
     /\ \A i, j \in 1..Len(selected) : selected[i] = selected[j] => i = j

\* the only selected node is toggled off
C20_Witness ==
  /\ toggled.before = <<"2">>
  /\ toggled.name = "2"
  /\ toggled.availableNodeNames = NodeList(MaxNodes)
  /\ selected = <<"All">>

(***************************************************************************)
(* C15: in the components with a request-id guard (NodeComparePanel,       *)
(* ActualPerformancePanel.refreshPayout) or an isCurrent guard             *)
(* (useTransfersActual, useReputationsPanel), a request that settles       *)
(* changes data, error or loading state only if it is the most recently    *)
(* started request and the component is still mounted.                     *)
(***************************************************************************)
C15_OnlyCurrentRequestWrites ==
  GuardOf(component) # "none" /\ arrived.changed
    => /\ arrived.load = arrived.latest
       /\ arrived.mounted

\* the first of two requests settles last and leaves the state alone
C15_Witness ==
  /\ GuardOf(component) = "requestId"
  /\ Len(loads) = 2
  /\ loads[2].phase = "ok"
  /\ loads[1].phase = "ok"
  /\ arrived.load = 1
  /\ arrived.latest = 2
  /\ ~arrived.changed
  /\ view.data = 2

(***************************************************************************)
(* C16: in AccumulatedTrafficPanel, HourlyTrafficPanel, LongTermPanel and  *)
(* useDiskUsageUsage, once every request has settled the data shown is     *)
(* the response to the request issued last, whatever the order in which    *)
(* the responses arrived.                                                  *)
(***************************************************************************)
C16_LatestResponseShown ==
  /\ GuardOf(component) = "none"
  /\ loads # <<>>
  /\ \A i \in 1..Len(loads) : loads[i].phase \in {"ok", "fail"}
  /\ loads[Len(loads)].phase = "ok"
  => view.data = Len(loads)

(***************************************************************************)
(* C17: when the user changes the interval in NodeComparePanel, or the     *)
(* interval or mode in DiskUsagePanel, a request with the new value is     *)
(* sent as a direct result, also when the previous load for the same       *)
(* selection started less than 1000 ms earlier.                            *)
(***************************************************************************)
C17_IntervalChangeSendsRequest ==
  component \in {"nodeCompare", "diskUsage"} /\ changeMade.what = "interval"
    => /\ changeMade.issued
       /\ loads # <<>>
       /\ loads[Len(loads)].args.interval = props.interval

(***************************************************************************)
(* C21: after toggleNode(name, available) with a name other than "All",    *)
(* selected is ["All"] if and only if the set of names chosen after the    *)
(* toggle is empty or equals the set of available names; otherwise it is   *)
(* the previous specific selection with name appended if it was absent or  *)
(* removed if it was present.  Stated for the calls NodesPanel makes: the  *)
(* name is one of the available names and the list is a served node list.  *)
(***************************************************************************)
C21_AllExactlyWhenEveryNodeChosen ==
  LET previous == IF Includes(toggled.before, "All") THEN <<>> ELSE toggled.before
      chosen == IF Includes(previous, toggled.name)
                  THEN Range(previous) \ {toggled.name}
                  ELSE Range(previous) \cup {toggled.name}
  IN  /\ toggled # NoToggle
      /\ toggled.name # "All"
      /\ toggled.name \in Range(toggled.availableNodeNames)
      /\ \E k \in 0..MaxNodes : toggled.availableNodeNames = NodeList(k)
      => /\ selected = <<"All">>
              <=> (chosen = {} \/ chosen = Range(toggled.availableNodeNames))
         /\ selected # <<"All">>
              => selected = IF Includes(previous, toggled.name)
                              THEN FilterOut(previous, toggled.name)
                              ELSE Append(previous, toggled.name)

(***************************************************************************)
(* C22: for every panel id, also one that is absent from the panels map,   *)
(* one togglePanel(id) call inverts what isVisible(id) returns, and two    *)
(* consecutive togglePanel(id) calls restore it.                           *)
(***************************************************************************)
C22_ToggleInvertsVisibility ==
  flipped # NoFlip =>
    /\ isVisible(panels, flipped.panelId) = ~flipped.was
    /\ \A before \in flipped.twoAgo : isVisible(panels, flipped.panelId) = before

(***************************************************************************)
(* C4: the durable cursor of a source is advanced only after the write of  *)
(* the corresponding event is durably committed.  In every execution,      *)
(* crashes and write failures included, every line the cursor has passed   *)
(* was committed, and a line whose write failed is still the next one of   *)
(* its source: it is retried, not dropped.                                 *)
(***************************************************************************)
C4_CursorOnlyAfterCommit ==
  \A s \in Sources :
    /\ cursor[s] <= Len(log[s])
    /\ \A i \in 1..cursor[s] : i \in committed[s]
    /\ attempts[s] > 0 => cursor[s] < Len(log[s])
    /\ pending[s] = "committed" => cursor[s] + 1 \in committed[s]

\* after a crash, a line that failed once is written and the cursor, already
\* past an earlier line, has not moved yet
C4_Witness ==
  \E s \in Sources :
    /\ restarts > 0
    /\ attempts[s] > 0
    /\ pending[s] = "committed"
    /\ cursor[s] = 1
    /\ committed[s] = {1, 2}

(***************************************************************************)
(* C5: PaystubRecord writes are upserts by key.  After any sequence of     *)
(* ingested PaystubRecords the store holds at most one record per          *)
(* (node, satelliteId, period), and it carries the values ingested last    *)
(* for that key.                                                           *)
(***************************************************************************)
C5_PaystubUpsertByKey ==
  /\ \A i \in 1..Len(store) :
       store[i].table = "paystub" => Key(store[i]) \in DOMAIN ingested
  /\ \A k \in DOMAIN ingested :
       /\ Cardinality(PaystubRows(k)) <= 1
       /\ \A i \in PaystubRows(k) : store[i].value = ingested[k]

\* a source whose two lines are paystubs of one key with different values,
\* both ingested
C5_Witness ==
  \E s \in Sources :
    /\ cursor[s] = 2
    /\ Key(Row(s, log[s][1])) = Key(Row(s, log[s][2]))
    /\ log[s][1].event.table = "paystub"
    /\ log[s][1].event.value = 1
    /\ log[s][2].event.value = 2
    /\ \E i \in 1..Len(store) : store[i].table = "paystub" /\ store[i].value = 2

(***************************************************************************)
(* C6: an interval query with intervalLength L and numberOfIntervals N     *)
(* returns exactly N buckets, each as wide as L, each ending where the     *)
(* next one starts, the last one ending on the most recent boundary; a     *)
(* bucket without events of the selected nodes is present with all 16      *)
(* fields zero.  The Hourly Traffic panel asks for 9 buckets of one hour,   *)
(* the Accumulated Traffic panel for 30 to 36 buckets per range, and the   *)
(* seconds both panels divide the bytes of a bucket by are the width of    *)
(* that bucket.                                                            *)
(***************************************************************************)
C6_ContiguousFixedWidthBuckets ==
  answer # NoAnswer =>
    LET width == IntervalSeconds(answer.intervalLength)
        N == answer.numberOfIntervals
        buckets == answer.buckets
    IN  /\ Len(buckets) = N
        /\ IF answer.panel = "hourlyTraffic"
             THEN N = 9 /\ answer.intervalLength = "1h"
             ELSE N \in 30..36
        /\ \A i \in 1..Len(buckets) :
             /\ buckets[i].bucketEnd - buckets[i].bucketStart = width
             /\ i < Len(buckets) => buckets[i].bucketEnd = buckets[i + 1].bucketStart
             /\ DOMAIN buckets[i].fields = FieldNames
             /\ \/ buckets[i].fields = ZeroFields
                \/ \E k \in 1..Len(store) :
                     /\ Matches(store[k], answer.nodes)
                     /\ InBucket(store[k].ts, buckets[i].bucketStart,
                                 buckets[i].bucketEnd)
             /\ buckets[i].fields # ZeroFields =>
                  BucketSeconds(BucketJson(buckets[i])) = Num(width)
        /\ Len(buckets) > 0 =>
             /\ buckets[Len(buckets)].bucketEnd <= answer.at
             /\ answer.at - buckets[Len(buckets)].bucketEnd < width

\* the Accumulated Traffic panel got 36 buckets of ten minutes for node "1"
\* an hour after its download: the bucket of the download gives 2048 * 8
\* bits over 600 seconds, the five after it and the 30 before it are there
\* and empty, and the transfer of node "2" is in none
C6_Witness ==
  /\ answer # NoAnswer
  /\ answer.panel = "accumulatedTraffic"
  /\ answer.numberOfIntervals = 36
  /\ answer.nodes = {"1"}
  /\ Len(answer.buckets) = 36
  /\ answer.buckets[31].fields["sizeDlSuccNor"] = 2048
  /\ answer.buckets[31].fields["countDlSuccNor"] = 1
  /\ AccumulatedSpeed(BucketJson(answer.buckets[31])).dl = Rat(2048 * 8, 600)
  /\ \A i \in 1..36 : i # 31 => answer.buckets[i].fields = ZeroFields
  /\ \E k \in 1..Len(store) : store[k].table = "transfer" /\ store[k].node = "2"

(***************************************************************************)
(* C7: bucket-sum consistency.  For every node filter and every interval   *)
(* bucketing, each size and count field summed over all buckets of the     *)
(* answer equals the same field of the totals over the span from the start *)
(* of the first bucket to the end of the last, summed over the nodes.      *)
(***************************************************************************)
C7_BucketSumEqualsTotals ==
  answer # NoAnswer =>
    \* a bucket whose fields are all zero adds nothing to any sum
    LET buckets == SelectSeq(answer.buckets, LAMBDA b : b.fields # ZeroFields)
    IN  \A f \in FieldNames :
          LET overBuckets[i \in 0..Len(buckets)] ==
                IF i = 0 THEN 0 ELSE overBuckets[i - 1] + buckets[i].fields[f]
              OfNode(node) ==
                IF node \in DOMAIN answer.totals THEN answer.totals[node][f] ELSE 0
          IN  overBuckets[Len(buckets)] = OfNode("1") + OfNode("2")

\* events of both nodes, one of them exactly on the boundary between the
\* last two buckets of ten seconds, asked for without a node filter
C7_Witness ==
  /\ answer # NoAnswer
  /\ answer.intervalLength = "10s"
  /\ answer.nodes = {}
  /\ \E k \in 1..Len(store) :
       /\ store[k].table = "transfer"
       /\ store[k].node = "1"
       /\ store[k].ts = answer.buckets[30].bucketStart
  /\ \E k \in 1..Len(store) :
       /\ store[k].table = "transfer"
       /\ store[k].node = "2"
       /\ store[k].ts < answer.buckets[30].bucketStart
  /\ answer.totals["1"]["countDlSuccNor"] + answer.totals["1"]["countUlFailRep"] = 1
  /\ answer.totals["2"]["countDlSuccNor"] + answer.totals["2"]["countUlFailRep"] = 1

(***************************************************************************)
(* C8: the Retention Manager never deletes PaystubRecords.  After any      *)
(* number of retention runs every paystub key that was stored is still     *)
(* stored, whatever its age.                                               *)
(***************************************************************************)
C8_PaystubsAreRetained ==
  \A k \in DOMAIN ingested : PaystubRows(k) # {}

\* a transfer of the same age was deleted, the paystub is still there
C8_Witness ==
  \E s \in Sources :
    /\ cursor[s] = 2
    /\ log[s][1].event.table = "transfer"
    /\ log[s][2].event.table = "paystub"
    /\ log[s][2].ts < now - RetentionHorizon
    /\ \A i \in 1..Len(store) : store[i].table # "transfer"
    /\ \E i \in 1..Len(store) : store[i] = Row(s, log[s][2])

(***************************************************************************)
(* C9: rate fields are bytes/second.  The bit rate shown for a rate r is   *)
(* r * 8 before unit scaling, and a rate that is not finite is shown as 0. *)
(***************************************************************************)
C9_Shown(presentation, bits) ==
  JsMul(presentation.value, Num(presentation.factor))
    = (IF isFinite(bits) /\ JsGt(bits, Num(0)) THEN bits ELSE Num(0))

C9_BitRateIsEightTimesRate ==
  /\ LET r == metricArgs[3]
     IN  /\ isFinite(r) => metricView.bitRate = JsMul(r, Num(8))
         /\ ~isFinite(r) => metricView.bitRate = Num(0) /\ metricView.rateValue = Num(0)
         /\ JsMul(metricView.rateValue, Num(metricView.rateFactor))
              = (IF JsGt(metricView.bitRate, Num(0)) THEN metricView.bitRate ELSE Num(0))
  /\ panel = "nodeCompare" /\ mode = "speed" =>
       \A node \in DOMAIN data.totals :
         LET value == transferCharts(data, mode)[node].download
         IN  C9_Shown(formatSpeedMetric(value), JsMul(value, Num(8)))
  /\ panel = "hourlyTraffic" /\ data.status = "ok" =>
       \A i \in 1..Len(data.buckets) :
         LET row == HourlyRow(data.buckets[i])
             seconds == BucketSeconds(data.buckets[i])
         IN  /\ C9_Shown(row.dlRate, JsMul(JsDiv(row.dlBytes, seconds), Num(8)))
             /\ C9_Shown(row.ulRate, JsMul(JsDiv(row.ulBytes, seconds), Num(8)))

\* 125 bytes/second of normal traffic, none of repair: shown as 1 Kbps
C9_Witness ==
  /\ panel = "actualPerformance"
  /\ metricArgs[3] = Num(125)
  /\ metricView.bitRate = Num(1000)
  /\ metricView.rateValue = Num(1)
  /\ metricView.rateUnit = "Kbps"

(***************************************************************************)
(* C10: rates are derived from the totals and the intervalSeconds of the   *)
(* response.  As found in the code: in Node Compare speed mode the         *)
(* download (upload) value of a node is its successful download (upload)   *)
(* bytes, normal plus repair, divided by the intervalSeconds of the        *)
(* response when that is greater than 0 and divided by 1 otherwise.        *)
(***************************************************************************)
C10_Bytes(node, direction) ==
  JsAdd(data.totals[node]["size" \o direction \o "SuccNor"],
        data.totals[node]["size" \o direction \o "SuccRep"])

C10_SpeedIsBytesOverSafeInterval ==
  panel = "nodeCompare" /\ mode = "speed" =>
    \A node \in DOMAIN data.totals :
      LET charts == transferCharts(data, mode)
          divisor == IF JsGt(data.intervalSeconds, Num(0))
                     THEN data.intervalSeconds ELSE Num(1)
      IN  /\ charts[node].download = JsDiv(C10_Bytes(node, "Dl"), divisor)
          /\ charts[node].upload = JsDiv(C10_Bytes(node, "Ul"), divisor)

\* the statement without the fallback: always divided by intervalSeconds
C10_SpeedIsBytesOverInterval ==
  panel = "nodeCompare" /\ mode = "speed" =>
    \A node \in DOMAIN data.totals :
      LET charts == transferCharts(data, mode)
      IN  /\ charts[node].download = JsDiv(C10_Bytes(node, "Dl"), data.intervalSeconds)
          /\ charts[node].upload = JsDiv(C10_Bytes(node, "Ul"), data.intervalSeconds)

\* two bytes in 60 seconds; and the same bytes under a missing interval
C10_Witness ==
  /\ panel = "nodeCompare"
  /\ mode = "speed"
  /\ Get(body, "intervalSeconds") = Num(60)
  /\ "2" \in DOMAIN data.totals
  /\ transferCharts(data, mode)["2"].download = Rat(2, 60)

====
